---- MODULE Spec2Model ----
(***************************************************************************)
(* Send side of a QUIC stream with the partial-reliability (PR) extension: *)
(* sendStream (send_stream.go), the PR policy globals (pr_policy.go) and   *)
(* the frame codec helpers it calls.                                       *)
(*                                                                         *)
(* Every handler that runs under s.mutex is one atomic action.  Write is   *)
(* the only operation that releases the mutex and suspends, so it is split *)
(* at its wait on writeChan / the deadline timer.  A byte is modelled by   *)
(* the number of bytes handed to Write before it, so every byte is unique. *)
(***************************************************************************)
EXTENDS Integers, Sequences, FiniteSets, Bags, TLC

(* ---------------------------- bounds ---------------------------------- *)
\* protocol.MaxPacketBufferSize, scaled down (1452 in the protocol package)
MaxPacketBufferSize == 2
\* longest input of one Write call
MaxWriteLen == 4
\* number of Write calls that get past the entry checks
MaxWrites == 2
\* largest flow-control limit the peer announces
MaxWindow == 4
\* the wall clock runs from 0 to MaxTime
MaxTime == 1
\* number of frames the congestion window lets the packet assembler keep in flight
MaxInflight == 2
\* number of PR_ACK_NOTIFY frames the stream queues
MaxNotify == 1

\* the largest number of Write calls blocked on writeOnce at a time
MaxBlocked == 1

\* the longest data of a frame handed to the codec, and the largest budget
MaxWireData == 8

MaxWireBudget == 16

\* the stream's id
streamID == 1

(* ------------------------- small helpers ------------------------------ *)
Min(a, b) == IF a <= b THEN a ELSE b

\* a []byte of length n whose first byte is byte number first
Bytes(first, n) == [i \in 1..n |-> first + i - 1]

Prefix(d, n) == SubSeq(d, 1, n)

Suffix(d, n) == SubSeq(d, n + 1, Len(d))

\* the nil error
NoErr == [kind |-> "nil", code |-> 0]

errDeadline == [kind |-> "deadline exceeded", code |-> 0]

\* fmt.Errorf("write on closed stream %d", s.streamID)
errWriteOnClosed == [kind |-> "write on closed stream", code |-> 0]

\* fmt.Errorf("close called for canceled stream %d", s.streamID)
errCloseCanceled == [kind |-> "close called for canceled stream", code |-> 0]

\* the error CancelWrite stores
errWriteCanceled(code) == [kind |-> "write canceled", code |-> code]

\* the *StreamError handleStopSendingFrame stores
errStreamError(code) == [kind |-> "StreamError", code |-> code]

\* the application error codes the application passes to CancelWrite
CancelWriteCodes == {7}

\* the application error codes of the STOP_SENDING frames the peer sends
StopSendingCodes == {8}

\* the errors the connection passes to closeForShutdown
ShutdownErrs == {[kind |-> "shutdown", code |-> 0]}

\* the budgets the packet assembler passes to popStreamFrame
MaxBytesChoices == {2, 5, 14}

\* the inputs of the codec functions: the budgets, the offsets, the data
\* lengths, the PTDA bytes (no policy, A, D, T, P) and the values of ptdaC
WireBudgets == 0..MaxWireBudget

WireOffsets == {0, 5}

WireDataLens == {0, 1, 3, MaxWireData}

WirePTDA == {0, 16, 32, 64, 128}

WirePtdaC == {0, 100, 300}

\* the settings of PR_ENABLED and PtadC a process runs with (pr_policy.go sets
\* PR_ENABLED = true, PTDA = 0x80 and PtadC = 0)
PolicyChoices == {<<FALSE, 0>>, <<TRUE, 0>>, <<TRUE, 128>>}

\* the input lengths of Write: empty, one that fits the buffered frame with room
\* to spare, and the longest
WriteLens == {0, 1, MaxWriteLen}

\* the flow-control limits of the MAX_STREAM_DATA frames the peer sends
WindowLimits == {MaxWindow}

\* outcomes of rand.Intn(10000) that the model distinguishes
RandDraws == {127, 128}

\* the bound of rand.Intn(10000): its outcomes are 0 .. RandBound - 1
RandBound == 10000

\* what last.draw holds when prQueueRetransmission did not call rand.Intn
NoDraw == -1

\* the values of PtadC the probability policy is examined with: never skip,
\* the one value the switch of prQueueRetransmission has a case for, always skip
ProbabilityPtadC == {0, 128, RandBound}

\* the values of PTDA the switch of popStreamFrame knows (P, T, D, A)
KnownPTDA == {128, 64, 32, 16}

\* values the variable PTDA of pr_policy.go is set to: the four policies, no
\* policy bit, and two policy bits at once
PolicyPTDA == KnownPTDA \cup {0, 48}

(* --------------------------- frame codec ------------------------------ *)
\* quicvarint.Len
VarintLen(x) ==
  IF x <= 63 THEN 1
  ELSE IF x <= 16383 THEN 2
  ELSE IF x <= 1073741823 THEN 4
  ELSE 8

\* wire.StreamFrame.DataLen
DataLen(f) == Len(f.Data)

\* wire.StreamFrame.Length (DataLenPresent is true on every frame of a sendStream)
StreamFrameLength(f) ==
  1 + VarintLen(streamID)
    + (IF f.Offset # 0 THEN VarintLen(f.Offset) ELSE 0)
    + VarintLen(DataLen(f))
    + DataLen(f)

\* wire.PRStreamFrame.Length, for a frame with DataLenPresent
PRStreamFrameLength(f) ==
  1 + VarintLen(streamID)
    + (IF f.Offset # 0 THEN VarintLen(f.Offset) ELSE 0)
    + VarintLen(DataLen(f))
    + 1
    + VarintLen(f.PtdaC)
    + DataLen(f)

\* wire.StreamFrame.MaxDataLen
StreamFrameMaxDataLen(f, maxSize) ==
  LET cut(headerLen, maxDataLen) ==
        IF headerLen > maxSize THEN 0
        ELSE IF VarintLen(maxDataLen) # 1 THEN maxDataLen - 1
        ELSE maxDataLen
      withHeader(headerLen) == cut(headerLen, maxSize - headerLen)
  IN  withHeader(1 + VarintLen(streamID)
                   + (IF f.Offset # 0 THEN VarintLen(f.Offset) ELSE 0)
                   + 1)

\* wire.StreamFrame.MaybeSplitOffFrame: the head that is split off (<<>> is nil),
\* what is left of f, and whether splitting was required
StreamFrameMaybeSplitOffFrame(f, maxSize) ==
  LET split(n) ==
        IF maxSize >= StreamFrameLength(f)
          THEN [new |-> <<>>, rest |-> f, needsSplit |-> FALSE]
        ELSE IF n = 0
          THEN [new |-> <<>>, rest |-> f, needsSplit |-> TRUE]
        ELSE [new  |-> <<[Offset |-> f.Offset, Data |-> Prefix(f.Data, n), Fin |-> FALSE]>>,
              rest |-> [Offset |-> f.Offset + n, Data |-> Suffix(f.Data, n), Fin |-> f.Fin],
              needsSplit |-> TRUE]
  IN  split(StreamFrameMaxDataLen(f, maxSize))

\* ---- the frames of the wire package, byte by byte ----

\* the error value nil of the wire package
NoWireErr == "nil"

\* bytes.Reader.ReadByte on the bytes b left in the reader
ReadByte(b) ==
  IF b = <<>> THEN [err |-> "EOF", v |-> 0, rest |-> <<>>]
  ELSE [err |-> NoWireErr, v |-> b[1], rest |-> Tail(b)]

\* the value of the big-endian bytes b, on top of the value acc
RECURSIVE BigEndian(_, _)
BigEndian(b, acc) ==
  IF b = <<>> THEN acc ELSE BigEndian(Tail(b), acc * 256 + Head(b))

\* quicvarint.Append, for values below 2^31 (the 8-byte form keeps its four
\* high bytes at zero)
VarintBytes(x) ==
  IF x <= 63 THEN <<x>>
  ELSE IF x <= 16383 THEN <<64 + x \div 256, x % 256>>
  ELSE IF x <= 1073741823
    THEN <<128 + x \div 16777216, (x \div 65536) % 256, (x \div 256) % 256, x % 256>>
  ELSE <<192, 0, 0, 0, x \div 16777216, (x \div 65536) % 256, (x \div 256) % 256,
         x % 256>>

\* quicvarint.Read: the two high bits of the first byte give the length
VarintRead(b) ==
  LET l(first) == IF first < 64 THEN 1 ELSE IF first < 128 THEN 2
                  ELSE IF first < 192 THEN 4 ELSE 8
      read(n) ==
        IF Len(b) < n THEN [err |-> "EOF", v |-> 0, rest |-> <<>>]
        ELSE [err |-> NoWireErr, v |-> BigEndian(SubSeq(b, 2, n), b[1] % 64),
              rest |-> SubSeq(b, n + 1, Len(b))]
  IN  IF b = <<>> THEN [err |-> "EOF", v |-> 0, rest |-> <<>>] ELSE read(l(b[1]))

\* the flag bits of a type byte
typeBit(typeByte, bit) == (typeByte \div bit) % 2 = 1

\* what a parser returns: a frame or an error, or it panics
parsed(f) == [frame |-> <<f>>, err |-> NoWireErr, panic |-> "none"]

parseFails(e) == [frame |-> <<>>, err |-> e, panic |-> "none"]

parsePanics(reason) == [frame |-> <<>>, err |-> NoWireErr, panic |-> reason]

\* PRStreamFrame.Append
PRStreamFrame_Append(f) ==
  IF Len(f.Data) = 0 /\ ~f.Fin
    THEN [b |-> <<>>, err |-> "StreamFrame: attempting to write empty frame without FIN"]
    ELSE [b |-> <<8 + (IF f.Fin THEN 1 ELSE 0) + (IF f.DataLenPresent THEN 2 ELSE 0)
                    + (IF f.Offset # 0 THEN 4 ELSE 0)>>
                \o VarintBytes(f.StreamID)
                \o (IF f.Offset # 0 THEN VarintBytes(f.Offset) ELSE <<>>)
                \o (IF f.DataLenPresent THEN VarintBytes(Len(f.Data)) ELSE <<>>)
                \o <<f.PTDA>> \o <<f.ptdaC % 256>> \o f.Data,
          err |-> NoWireErr]

\* parsePRStreamFrame: after the type byte, the stream ID, the offset and the
\* data length were read, frame.PTDA is assigned through the nil pointer frame;
\* the code after that assignment is never reached
parsePRStreamFrame(b) ==
  LET readPTDA(r) == IF r.err # NoWireErr THEN parseFails(r.err)
                     ELSE parsePanics("nil pointer dereference")
      readDataLen(typeByte, r) ==
        IF r.err # NoWireErr THEN parseFails(r.err)
        ELSE IF typeBit(typeByte, 2) THEN readPTDA(VarintRead(r.rest))
        ELSE readPTDA(r)
      readOffset(typeByte, r) ==
        IF r.err # NoWireErr THEN parseFails(r.err)
        ELSE IF typeBit(typeByte, 4) THEN readDataLen(typeByte, VarintRead(r.rest))
        ELSE readDataLen(typeByte, r)
      readStreamID(r) ==
        IF r.err # NoWireErr THEN parseFails(r.err)
        ELSE readOffset(r.v, VarintRead(r.rest))
  IN  readStreamID(ReadByte(b))

\* PRStreamFrame.Length
PRStreamFrame_Length(f) ==
  1 + VarintLen(f.StreamID)
    + (IF f.Offset # 0 THEN VarintLen(f.Offset) ELSE 0)
    + (IF f.DataLenPresent THEN VarintLen(Len(f.Data)) ELSE 0)
    + 1
    + VarintLen(f.ptdaC)
    + Len(f.Data)

\* PRStreamFrame.MaxDataLen: the PR fields are taken off headerLen after the
\* comparison with maxSize
PRStreamFrame_MaxDataLen(f, maxSize) ==
  LET headerLen == 1 + VarintLen(f.StreamID)
                     + (IF f.Offset # 0 THEN VarintLen(f.Offset) ELSE 0)
                     + (IF f.DataLenPresent THEN 1 ELSE 0)
      adjusted(maxDataLen) ==
        IF f.DataLenPresent /\ VarintLen(maxDataLen) # 1
          THEN maxDataLen - 1 ELSE maxDataLen
  IN  IF headerLen > maxSize THEN 0
      ELSE adjusted(maxSize - (headerLen - 1 - VarintLen(f.ptdaC)))

\* PRStreamFrame.MaybeSplitOffFrame: new is the frame returned, f the receiver
\* after the call; slicing f.Data to a negative length panics
PRStreamFrame_MaybeSplitOffFrame(f, maxSize) ==
  LET splitAt(n) ==
        IF n = 0
          THEN [new |-> <<>>, split |-> TRUE, f |-> f, panic |-> "none"]
        ELSE IF Len(f.Data) - n < 0
          THEN [new |-> <<>>, split |-> FALSE, f |-> f,
                panic |-> "slice bounds out of range"]
        ELSE [new |-> <<[type |-> "PR_STREAM", StreamID |-> f.StreamID,
                         Offset |-> f.Offset, Fin |-> FALSE,
                         DataLenPresent |-> f.DataLenPresent, PTDA |-> f.PTDA,
                         P |-> f.P, T |-> f.T, D |-> f.D, A |-> f.A,
                         ptdaC |-> f.ptdaC, Data |-> SubSeq(f.Data, 1, n)]>>,
              split |-> TRUE,
              f |-> [f EXCEPT !.Data = SubSeq(f.Data, n + 1, Len(f.Data)),
                              !.Offset = @ + n],
              panic |-> "none"]
  IN  IF maxSize >= PRStreamFrame_Length(f)
        THEN [new |-> <<>>, split |-> FALSE, f |-> f, panic |-> "none"]
        ELSE splitAt(PRStreamFrame_MaxDataLen(f, maxSize))

\* PRAckNotifyFrame.Append
PRAckNotifyFrame_Append(f) ==
  [b |-> <<88 + (IF f.Fin THEN 1 ELSE 0) + (IF f.DataLenPresent THEN 2 ELSE 0)
              + (IF f.Offset # 0 THEN 4 ELSE 0)>>
          \o VarintBytes(f.StreamID)
          \o <<f.PTDA>> \o VarintBytes(f.PtdaC)
          \o (IF f.Offset # 0 THEN VarintBytes(f.Offset) ELSE <<>>)
          \o VarintBytes(f.PRDataLen),
   err |-> NoWireErr]

\* parsePRAckNotifyFrame
parsePRAckNotifyFrame(b) ==
  LET readDataLen(typeByte, id, ptda, ptdaC, offset, r) ==
        IF r.err # NoWireErr THEN parseFails(r.err)
        ELSE parsed([type |-> "PR_ACK_NOTIFY", StreamID |-> id,
                     Offset |-> offset, Fin |-> typeBit(typeByte, 1),
                     DataLenPresent |-> typeBit(typeByte, 2),
                     P |-> (ptda \div 16) * 16 = 128, T |-> (ptda \div 16) * 16 = 64,
                     D |-> (ptda \div 16) * 16 = 32, A |-> (ptda \div 16) * 16 = 16,
                     PTDA |-> ptda, PtdaC |-> ptdaC, PRDataLen |-> r.v])
      readOffset(typeByte, id, ptda, ptdaC, r) ==
        IF r.err # NoWireErr THEN parseFails(r.err)
        ELSE readDataLen(typeByte, id, ptda, ptdaC, r.v, VarintRead(r.rest))
      readPtdaC(typeByte, id, ptda, r) ==
        IF r.err # NoWireErr THEN parseFails(r.err)
        ELSE IF typeBit(typeByte, 4)
          THEN readOffset(typeByte, id, ptda, r.v, VarintRead(r.rest))
        ELSE readDataLen(typeByte, id, ptda, r.v, 0, VarintRead(r.rest))
      readPTDA(typeByte, id, r) ==
        IF r.err # NoWireErr THEN parseFails(r.err)
        ELSE readPtdaC(typeByte, id, r.v, VarintRead(r.rest))
      readStreamID(typeByte, r) ==
        IF r.err # NoWireErr THEN parseFails(r.err)
        ELSE readPTDA(typeByte, r.v, ReadByte(r.rest))
      readType(r) ==
        IF r.err # NoWireErr THEN parseFails(r.err)
        ELSE readStreamID(r.v, VarintRead(r.rest))
  IN  readType(ReadByte(b))

\* PRDatagramFrame.Append
PRDatagramFrame_Append(f) ==
  [b |-> <<82 + (IF f.DataLenPresent THEN 1 ELSE 0)>>
          \o (IF f.DataLenPresent THEN VarintBytes(Len(f.Data)) ELSE <<>>)
          \o <<f.PTDA>> \o <<f.ptdaC % 256>> \o f.Data,
   err |-> NoWireErr]

\* parsePRDatagramFrame: without a length field the length is what the reader
\* holds before the PR fields are read
parsePRDatagramFrame(b) ==
  LET readData(dataLenPresent, length, ptda, r) ==
        IF r.err # NoWireErr THEN parseFails(r.err)
        ELSE IF Len(r.rest) < length
          THEN parseFails(IF r.rest = <<>> THEN "EOF" ELSE "unexpected EOF")
        ELSE parsed([type |-> "PR_DATAGRAM", DataLenPresent |-> dataLenPresent,
                     Data |-> SubSeq(r.rest, 1, length), PTDA |-> ptda,
                     P |-> (ptda \div 16) * 16 = 128, T |-> (ptda \div 16) * 16 = 64,
                     D |-> (ptda \div 16) * 16 = 32, A |-> (ptda \div 16) * 16 = 16,
                     ptdaC |-> r.v])
      readPTDA(dataLenPresent, length, r) ==
        IF r.err # NoWireErr THEN parseFails(r.err)
        ELSE readData(dataLenPresent, length, r.v, VarintRead(r.rest))
      readLength(r) ==
        IF r.err # NoWireErr THEN parseFails(r.err)
        ELSE IF r.v > Len(r.rest) THEN parseFails("EOF")
        ELSE readPTDA(TRUE, r.v, ReadByte(r.rest))
      readType(r) ==
        IF r.err # NoWireErr THEN parseFails(r.err)
        ELSE IF typeBit(r.v, 1) THEN readLength(VarintRead(r.rest))
        ELSE readPTDA(FALSE, Len(r.rest), ReadByte(r.rest))
  IN  readType(ReadByte(b))

(* ------------------------------ state --------------------------------- *)
VARIABLES
  \* sendStream fields
  numOutstandingFrames, retransmissionQueue, prAckNotifyRetransmissionQueue,
  writeOffset, cancelWriteErr, closeForShutdownErr,
  closedForShutdown, finishedWriting, canceledWrite, finSent, completed,
  dataForWriting, nextFrame, writeChan, writeOnce, deadline, ctxCanceled,
  \* the stream flow controller
  fcSendWindow, fcBytesSent, fcLastBlockedAt,
  \* the calls the stream made on its streamSender
  controlFrames, completedCalls,
  \* the calls on the streamSender that were made with the stream's mutex held
  callsUnderMutex,
  \* the suspended Write call: its position, its input p and its locals
  wpc, p, notifiedSender, timerDeadline,
  \* the number of other Write calls that wait to send on writeOnce
  blockedWrites,
  \* the PR policy globals of pr_policy.go
  PR_ENABLED, PTDA, PtadC,
  \* the environment: the clock, the frames handed to the packet assembler that
  \* were neither acknowledged nor declared lost, and a crashed process
  now, inflight, panicked,
  \* history: the bytes Write accepted, the number of bytes and of calls Write
  \* took in, the number of bytes in acknowledged frames, what the last operation
  \* returned, and sums over the frames popped
  presented, offered, nWrites, ackedBytes, last, sumNew, lastNewOffset, finFrames,
  newFinFrames,
  \* the frame codec: the frame a function of the wire package is applied to,
  \* and what the last call returned
  wireFrame, wireOut,
  \* the packet assembler: "free" when it calls popStreamFrame whenever it likes,
  \* else whether it holds the stream as one that has data ("notified") or
  \* not ("idle")
  assembler

streamVars ==
  <<numOutstandingFrames, retransmissionQueue, prAckNotifyRetransmissionQueue,
    writeOffset, cancelWriteErr, closeForShutdownErr,
    closedForShutdown, finishedWriting, canceledWrite, finSent, completed,
    dataForWriting, nextFrame, writeChan, deadline, ctxCanceled>>

fcVars == <<fcSendWindow, fcBytesSent, fcLastBlockedAt>>

senderVars == <<controlFrames, completedCalls, callsUnderMutex>>

writerVars == <<wpc, p, notifiedSender, timerDeadline, writeOnce, blockedWrites>>

policyVars == <<PR_ENABLED, PTDA, PtadC>>

wireVars == <<wireFrame, wireOut>>

historyVars ==
  <<presented, offered, nWrites, ackedBytes, sumNew, lastNewOffset, finFrames,
    newFinFrames>>

vars ==
  <<streamVars, fcVars, senderVars, writerVars, policyVars, now, inflight, panicked,
    historyVars, last, wireVars, assembler>>

\* the stream, its flow controller and the calls it makes, as one record that
\* the handlers below transform
Cur ==
  [numOutstandingFrames |-> numOutstandingFrames,
   retransmissionQueue |-> retransmissionQueue,
   prAckNotifyRetransmissionQueue |-> prAckNotifyRetransmissionQueue,
   writeOffset |-> writeOffset,
   cancelWriteErr |-> cancelWriteErr,
   closeForShutdownErr |-> closeForShutdownErr,
   closedForShutdown |-> closedForShutdown,
   finishedWriting |-> finishedWriting,
   canceledWrite |-> canceledWrite,
   finSent |-> finSent,
   completed |-> completed,
   dataForWriting |-> dataForWriting,
   nextFrame |-> nextFrame,
   writeChan |-> writeChan,
   deadline |-> deadline,
   ctxCanceled |-> ctxCanceled,
   fcSendWindow |-> fcSendWindow,
   fcBytesSent |-> fcBytesSent,
   fcLastBlockedAt |-> fcLastBlockedAt,
   controlFrames |-> controlFrames,
   completedCalls |-> completedCalls,
   callsUnderMutex |-> callsUnderMutex,
   mutex |-> FALSE,
   hasDataCalled |-> FALSE,
   calls |-> <<>>,
   panic |-> "none"]

\* the next state of the stream, its flow controller and its sender is s
Commit(s) ==
  /\ numOutstandingFrames' = s.numOutstandingFrames
  /\ retransmissionQueue' = s.retransmissionQueue
  /\ prAckNotifyRetransmissionQueue' = s.prAckNotifyRetransmissionQueue
  /\ writeOffset' = s.writeOffset
  /\ cancelWriteErr' = s.cancelWriteErr
  /\ closeForShutdownErr' = s.closeForShutdownErr
  /\ closedForShutdown' = s.closedForShutdown
  /\ finishedWriting' = s.finishedWriting
  /\ canceledWrite' = s.canceledWrite
  /\ finSent' = s.finSent
  /\ completed' = s.completed
  /\ dataForWriting' = s.dataForWriting
  /\ nextFrame' = s.nextFrame
  /\ writeChan' = s.writeChan
  /\ deadline' = s.deadline
  /\ ctxCanceled' = s.ctxCanceled
  /\ fcSendWindow' = s.fcSendWindow
  /\ fcBytesSent' = s.fcBytesSent
  /\ fcLastBlockedAt' = s.fcLastBlockedAt
  /\ controlFrames' = s.controlFrames
  /\ completedCalls' = s.completedCalls
  /\ callsUnderMutex' = s.callsUnderMutex
  /\ panicked' = s.panic

\* what an operation that returned nothing of interest leaves in last
NoResult ==
  [op |-> "none", frame |-> <<>>, hasMore |-> FALSE, retransmission |-> FALSE,
   n |-> 0, err |-> NoErr, len |-> 0, code |-> 0, hasDataCalled |-> FALSE,
   draw |-> NoDraw, maxBytes |-> 0, limit |-> 0, calls |-> <<>>]

\* the stream newSendStream returns, before any call
newSendStream ==
  /\ numOutstandingFrames = 0
  /\ retransmissionQueue = <<>>
  /\ prAckNotifyRetransmissionQueue = <<>>
  /\ writeOffset = 0
  /\ cancelWriteErr = NoErr
  /\ closeForShutdownErr = NoErr
  /\ closedForShutdown = FALSE
  /\ finishedWriting = FALSE
  /\ canceledWrite = FALSE
  /\ finSent = FALSE
  /\ completed = FALSE
  /\ dataForWriting = <<>>
  /\ nextFrame = <<>>
  /\ writeChan = 0
  /\ writeOnce = 0
  /\ deadline = 0
  /\ ctxCanceled = FALSE
  /\ fcSendWindow = 0
  /\ fcBytesSent = 0
  /\ fcLastBlockedAt = 0
  /\ controlFrames = <<>>
  /\ completedCalls = 0
  /\ callsUnderMutex = {}
  /\ wpc = "idle"
  /\ p = <<>>
  /\ notifiedSender = FALSE
  /\ timerDeadline = 0
  /\ blockedWrites = 0
  /\ now = 0
  /\ inflight = EmptyBag
  /\ panicked = "none"
  /\ presented = <<>>
  /\ offered = 0
  /\ ackedBytes = 0
  /\ nWrites = 0
  /\ last = NoResult
  /\ sumNew = 0
  /\ lastNewOffset = -1
  /\ finFrames = 0
  /\ newFinFrames = 0

\* what the packet assembler holds after an operation: a call of
\* onHasStreamData notifies it, and a popStreamFrame leaves it notified when it
\* returned hasMore and idle when it did not
assemblerAfter ==
  IF assembler = "free" THEN "free"
  ELSE IF last'.op = "popStreamFrame"
         THEN (IF last'.hasMore THEN "notified" ELSE "idle")
  ELSE IF last'.hasDataCalled THEN "notified"
  ELSE assembler

\* no function of the frame codec was called
NoWireOut == [op |-> "none"]

noWire == wireFrame = <<>> /\ wireOut = NoWireOut

\* a new stream in a process that runs with one of the policies of PolicyChoices
Init ==
  /\ newSendStream
  /\ assembler = "free"
  /\ noWire
  /\ \E c \in PolicyChoices : PR_ENABLED = c[1] /\ PtadC = c[2]
  /\ PTDA = 128

\* a new stream in a process that runs the probability policy with one of the
\* parameters of ProbabilityPtadC
InitProbability ==
  /\ newSendStream
  /\ assembler = "free"
  /\ noWire
  /\ PR_ENABLED = TRUE
  /\ PTDA = 128
  /\ PtadC \in ProbabilityPtadC

\* a new stream, PR enabled, with PTDA set to any byte of PolicyPTDA
InitPolicy ==
  /\ newSendStream
  /\ assembler = "free"
  /\ noWire
  /\ PR_ENABLED = TRUE
  /\ PTDA \in PolicyPTDA
  /\ PtadC = 0

(* ------------------------ sendStream helpers -------------------------- *)
\* sendStream.signalWrite: a non-blocking send on writeChan (capacity 1)
\* fault injection for C37_NoLostWakeUp: signalWrite that does not send on
\* writeChan
signalWriteDropped(s) == s

signalWrite(s) == [s EXCEPT !.writeChan = 1]

\* wire.GetStreamFrame: a frame from the pool, without data and without FIN
GetStreamFrame == [Offset |-> 0, Data |-> <<>>, Fin |-> FALSE]

\* fault injection for C35_NextFrameShape: nextFrame takes any amount of data
canBufferStreamFrameAlways(s) == TRUE

\* sendStream.canBufferStreamFrame
canBufferStreamFrame(s) ==
  LET l == IF s.nextFrame # <<>> THEN DataLen(s.nextFrame[1]) ELSE 0
  IN  l + Len(s.dataForWriting) <= MaxPacketBufferSize

\* fault injection for C5_CompletionOnce: isNewlyCompleted that does not look
\* at the frames still outstanding
isNewlyCompletedWhileOutstanding(s) ==
  LET isCompleted == /\ (s.finSent \/ s.canceledWrite)
                     /\ Len(s.retransmissionQueue) = 0
  IN  IF isCompleted /\ ~s.completed
        THEN [s |-> [s EXCEPT !.completed = TRUE], newly |-> TRUE]
        ELSE [s |-> s, newly |-> FALSE]

\* sendStream.isNewlyCompleted: the stream after the call and what it returned
isNewlyCompleted(s) ==
  LET isCompleted == /\ (s.finSent \/ s.canceledWrite)
                     /\ s.numOutstandingFrames = 0
                     /\ Len(s.retransmissionQueue) = 0
  IN  IF isCompleted /\ ~s.completed
        THEN [s |-> [s EXCEPT !.completed = TRUE], newly |-> TRUE]
        ELSE [s |-> s, newly |-> FALSE]

\* s.mutex.Lock() and s.mutex.Unlock()
Lock(s) == [s EXCEPT !.mutex = TRUE]

Unlock(s) == [s EXCEPT !.mutex = FALSE]

\* a call on the streamSender is made: it is noted when the mutex is held
senderCall(s, method) ==
  IF s.mutex THEN [s EXCEPT !.callsUnderMutex = @ \cup {method}] ELSE s

\* s.sender.onStreamCompleted(s.streamID), called when newly holds
onStreamCompleted(s, newly) ==
  IF newly
    THEN senderCall([s EXCEPT !.completedCalls = Min(@ + 1, 2)], "onStreamCompleted")
    ELSE s

\* s.sender.onHasStreamData(s.streamID)
onHasStreamData(s) ==
  senderCall([s EXCEPT !.hasDataCalled = TRUE,
                       !.calls = Append(@, <<"onHasStreamData", streamID>>)],
             "onHasStreamData")

\* fault injection for C31_BlockedOnce: the control frame is queued twice
queueControlFrameTwice(s, f) ==
  senderCall([s EXCEPT !.controlFrames = Append(Append(@, f), f)], "queueControlFrame")

\* s.sender.queueControlFrame(f)
queueControlFrame(s, f) ==
  senderCall([s EXCEPT !.controlFrames = Append(@, f)], "queueControlFrame")

(* ------------------------------ Write --------------------------------- *)
\* fault injection for C10_EntryPrecedenceOfTheCode: the entry checks of Write
\* with the shutdown check moved to the front
WriteEntryErrShutdownFirst(s) ==
  IF s.closeForShutdownErr # NoErr THEN s.closeForShutdownErr
  ELSE IF s.finishedWriting THEN errWriteOnClosed
  ELSE IF s.canceledWrite THEN s.cancelWriteErr
  ELSE IF s.deadline # 0 /\ ~(now < s.deadline) THEN errDeadline
  ELSE NoErr

\* the checks at the entry of Write, in the order of the code: the error that
\* ends the call at once, or NoErr
WriteEntryErr(s) ==
  IF s.finishedWriting THEN errWriteOnClosed
  ELSE IF s.canceledWrite THEN s.cancelWriteErr
  ELSE IF s.closeForShutdownErr # NoErr THEN s.closeForShutdownErr
  ELSE IF s.deadline # 0 /\ ~(now < s.deadline) THEN errDeadline
  ELSE NoErr

\* fault injection for C3_WriteResult: Write that drops the sticky error when it
\* leaves the loop
WriteResultWithoutError(s, bytesWritten, pp) == NoErr

\* the statements after the loop of Write
WriteResult(s, bytesWritten, pp) ==
  IF bytesWritten = Len(pp) THEN NoErr
  ELSE IF s.closeForShutdownErr # NoErr THEN s.closeForShutdownErr
  ELSE IF s.cancelWriteErr # NoErr THEN s.cancelWriteErr
  ELSE NoErr

\* fault injection for C13_DeadlineReturn: the loop of Write that keeps
\* dataForWriting when the deadline has passed
WriteLoopKeepingData(s, pp, notified) ==
  LET bytesWritten == Len(pp) - Len(s.dataForWriting)
      notify(t) == IF notified THEN Unlock(t) ELSE onHasStreamData(Unlock(t))
  IN  IF canBufferStreamFrame(s) /\ Len(s.dataForWriting) > 0
        THEN LET f == IF s.nextFrame = <<>>
                        THEN [GetStreamFrame EXCEPT !.Offset = s.writeOffset,
                                                    !.Data = s.dataForWriting]
                        ELSE [s.nextFrame[1] EXCEPT !.Data = @ \o s.dataForWriting]
                 t == [s EXCEPT !.nextFrame = <<f>>, !.dataForWriting = <<>>]
             IN  [s |-> notify(t), returns |-> TRUE, n |-> Len(pp), err |-> NoErr,
                  timer |-> 0]
      ELSE IF s.deadline # 0 /\ ~(now < s.deadline)
        THEN [s |-> s, returns |-> TRUE,
              n |-> bytesWritten, err |-> errDeadline, timer |-> 0]
      ELSE IF s.dataForWriting = <<>> \/ s.canceledWrite \/ s.closedForShutdown
        THEN [s |-> s, returns |-> TRUE, n |-> bytesWritten,
              err |-> WriteResult(s, bytesWritten, pp), timer |-> 0]
      ELSE [s |-> notify(s), returns |-> FALSE, n |-> bytesWritten, err |-> NoErr,
            timer |-> s.deadline]

\* One pass of the loop of Write, from its top (mutex held) to the return of the
\* call or to its wait on writeChan and the deadline timer. The Fin field of
\* nextFrame is not modelled: Write never sets it and popNewOrRetransmittedStreamFrame
\* assigns it before the frame leaves the stream.
WriteLoop(s, pp, notified) ==
  LET bytesWritten == Len(pp) - Len(s.dataForWriting)
      notify(t) == IF notified THEN Unlock(t) ELSE onHasStreamData(Unlock(t))
  IN  IF canBufferStreamFrame(s) /\ Len(s.dataForWriting) > 0
        THEN LET f == IF s.nextFrame = <<>>
                        THEN [GetStreamFrame EXCEPT !.Offset = s.writeOffset,
                                                    !.Data = s.dataForWriting]
                        ELSE [s.nextFrame[1] EXCEPT !.Data = @ \o s.dataForWriting]
                 t == [s EXCEPT !.nextFrame = <<f>>, !.dataForWriting = <<>>]
             IN  [s |-> notify(t), returns |-> TRUE, n |-> Len(pp), err |-> NoErr,
                  timer |-> 0]
      ELSE IF s.deadline # 0 /\ ~(now < s.deadline)
        THEN [s |-> [s EXCEPT !.dataForWriting = <<>>], returns |-> TRUE,
              n |-> bytesWritten, err |-> errDeadline, timer |-> 0]
      ELSE IF s.dataForWriting = <<>> \/ s.canceledWrite \/ s.closedForShutdown
        THEN [s |-> s, returns |-> TRUE, n |-> bytesWritten,
              err |-> WriteResult(s, bytesWritten, pp), timer |-> 0]
      ELSE [s |-> notify(s), returns |-> FALSE, n |-> bytesWritten, err |-> NoErr,
            timer |-> s.deadline]

\* the call returned (n, err), or suspended
AfterWriteLoop(r, pp, shown) ==
  /\ Commit(r.s)
  /\ IF r.returns
       THEN /\ wpc' = "idle"
            /\ p' = <<>>
            /\ notifiedSender' = FALSE
            /\ timerDeadline' = 0
            /\ writeOnce' = 0
            /\ presented' = Prefix(shown, Len(shown) - (Len(pp) - r.n))
            /\ last' = [NoResult EXCEPT !.op = "Write", !.n = r.n, !.err = r.err,
                                        !.len = Len(pp),
                                        !.hasDataCalled = r.s.hasDataCalled]
       ELSE /\ wpc' = "wait"
            /\ p' = pp
            /\ notifiedSender' = TRUE
            /\ timerDeadline' = r.timer
            /\ writeOnce' = 1
            /\ presented' = shown
            /\ last' = [NoResult EXCEPT !.op = "WriteSuspended", !.len = Len(pp),
                                        !.hasDataCalled = r.s.hasDataCalled]

\* fault injection for C23_SingleWriter: Write without the send on writeOnce
writeOnceSendNeverBlocks == TRUE

\* s.writeOnce <- struct{}{} proceeds: the channel of capacity 1 is empty
writeOnceSendProceeds == writeOnce = 0

\* Write(p) from its send on writeOnce on. The bytes of a call that passes the
\* entry checks are numbered offered+1 .. offered+len; MaxWrites bounds the
\* number of such calls.
WriteCall(len) ==
  /\ panicked = "none"
  /\ writeOnceSendProceeds
  /\ LET pp == Bytes(offered + 1, len)
         e == WriteEntryErr(Cur)
     IN  IF e # NoErr \/ len = 0
           THEN /\ Commit(Cur)
                /\ UNCHANGED <<wpc, p, notifiedSender, timerDeadline, writeOnce,
                               presented, offered, nWrites>>
                /\ last' = [NoResult EXCEPT !.op = "Write", !.n = 0, !.err = e,
                                            !.len = len]
           ELSE /\ nWrites < MaxWrites
                /\ nWrites' = nWrites + 1
                /\ offered' = offered + len
                /\ AfterWriteLoop(
                     WriteLoop(Lock([Cur EXCEPT !.dataForWriting = pp]), pp, FALSE),
                     pp, presented \o pp)
  /\ UNCHANGED <<policyVars, wireVars, now, inflight, ackedBytes, sumNew, lastNewOffset, finFrames,
                 newFinFrames>>
  /\ assembler' = assemblerAfter

\* Write(p) is called and sends on writeOnce at once
Write(len) == WriteCall(len) /\ UNCHANGED blockedWrites

\* Write(p) is called while another Write holds writeOnce: the send blocks
WriteBlocks ==
  /\ panicked = "none"
  /\ ~writeOnceSendProceeds
  /\ blockedWrites < MaxBlocked
  /\ blockedWrites' = blockedWrites + 1
  /\ last' = [NoResult EXCEPT !.op = "WriteBlocked"]
  /\ UNCHANGED <<streamVars, fcVars, senderVars, wpc, p, notifiedSender,
                 timerDeadline, writeOnce, policyVars, wireVars, now, inflight, panicked,
                 historyVars>>
  /\ assembler' = assemblerAfter

\* the send on writeOnce of a blocked Write(p) proceeds
WriteUnblocked(len) ==
  /\ blockedWrites > 0
  /\ WriteCall(len)
  /\ blockedWrites' = blockedWrites - 1

\* the suspended Write receives from writeChan and runs the loop again
WriteWakeChan ==
  /\ panicked = "none"
  /\ wpc = "wait"
  /\ writeChan = 1
  /\ \E r \in {WriteLoop(Lock([Cur EXCEPT !.writeChan = 0]), p, notifiedSender)} :
       AfterWriteLoop(r, p, presented)
  /\ UNCHANGED <<blockedWrites, policyVars, wireVars, now, inflight, offered, nWrites,
                 ackedBytes, sumNew,
                 lastNewOffset, finFrames, newFinFrames>>
  /\ assembler' = assemblerAfter

\* the deadline timer of the suspended Write fires and it runs the loop again
WriteWakeTimer ==
  /\ panicked = "none"
  /\ wpc = "wait"
  /\ timerDeadline # 0
  /\ ~(now < timerDeadline)
  /\ \E r \in {WriteLoop(Lock(Cur), p, notifiedSender)} :
       AfterWriteLoop(r, p, presented)
  /\ UNCHANGED <<blockedWrites, policyVars, wireVars, now, inflight, offered, nWrites,
                 ackedBytes, sumNew,
                 lastNewOffset, finFrames, newFinFrames>>
  /\ assembler' = assemblerAfter

(* ----------------- Close, cancel, shutdown, deadline ------------------ *)
\* fault injection for C12_CloseResult: Close without the check of canceledWrite
closeImplIgnoringCancel(s) ==
  IF s.closedForShutdown THEN [s |-> s, err |-> NoErr]
  ELSE [s |-> onHasStreamData([s EXCEPT !.ctxCanceled = TRUE,
                                        !.finishedWriting = TRUE]),
        err |-> NoErr]

\* the body of sendStream.Close: the stream after the call and the error returned
closeImpl(s) ==
  IF s.closedForShutdown THEN [s |-> s, err |-> NoErr]
  ELSE IF s.canceledWrite THEN [s |-> s, err |-> errCloseCanceled]
  ELSE [s |-> onHasStreamData(Unlock([Lock(s) EXCEPT !.ctxCanceled = TRUE,
                                                     !.finishedWriting = TRUE])),
        err |-> NoErr]

\* sendStream.Close
Close ==
  /\ panicked = "none"
  /\ LET r == closeImpl(Cur)
     IN  /\ Commit(r.s)
         /\ last' = [NoResult EXCEPT !.op = "Close", !.err = r.err,
                                     !.hasDataCalled = r.s.hasDataCalled]
  /\ UNCHANGED <<writerVars, policyVars, wireVars, now, inflight, historyVars>>
  /\ assembler' = assemblerAfter

\* fault injection for C9_FirstCancelResets: cancelWriteImpl that keeps the
\* retransmission queue
cancelWriteImplKeepingQueue(s, errorCode, writeErr) ==
  IF s.canceledWrite THEN s
  ELSE LET c == isNewlyCompleted([s EXCEPT !.ctxCanceled = TRUE,
                                           !.canceledWrite = TRUE,
                                           !.cancelWriteErr = writeErr,
                                           !.numOutstandingFrames = 0])
           t == queueControlFrame(signalWrite(c.s),
                                  [type |-> "RESET_STREAM", StreamID |-> streamID,
                                   FinalSize |-> c.s.writeOffset, ErrorCode |-> errorCode])
       IN  onStreamCompleted(t, c.newly)

\* sendStream.cancelWriteImpl
cancelWriteImpl(s, errorCode, writeErr) ==
  IF s.canceledWrite THEN s
  ELSE LET c == isNewlyCompleted([Lock(s) EXCEPT !.ctxCanceled = TRUE,
                                           !.canceledWrite = TRUE,
                                           !.cancelWriteErr = writeErr,
                                           !.numOutstandingFrames = 0,
                                           !.retransmissionQueue = <<>>])
           t == queueControlFrame(signalWrite(Unlock(c.s)),
                                  [type |-> "RESET_STREAM", StreamID |-> streamID,
                                   FinalSize |-> c.s.writeOffset, ErrorCode |-> errorCode])
       IN  onStreamCompleted(t, c.newly)

\* sendStream.CancelWrite
CancelWrite(errorCode) ==
  /\ panicked = "none"
  /\ Commit(cancelWriteImpl(Cur, errorCode, errWriteCanceled(errorCode)))
  /\ last' = [NoResult EXCEPT !.op = "CancelWrite", !.code = errorCode]
  /\ UNCHANGED <<writerVars, policyVars, wireVars, now, inflight, historyVars>>
  /\ assembler' = assemblerAfter

\* sendStream.handleStopSendingFrame
handleStopSendingFrame(errorCode) ==
  /\ panicked = "none"
  /\ Commit(cancelWriteImpl(Cur, errorCode, errStreamError(errorCode)))
  /\ last' = [NoResult EXCEPT !.op = "handleStopSendingFrame", !.code = errorCode]
  /\ UNCHANGED <<writerVars, policyVars, wireVars, now, inflight, historyVars>>
  /\ assembler' = assemblerAfter

\* sendStream.closeForShutdown
closeForShutdown(err) ==
  /\ panicked = "none"
  /\ Commit(signalWrite(Unlock([Lock(Cur) EXCEPT !.ctxCanceled = TRUE,
                                                 !.closedForShutdown = TRUE,
                                                 !.closeForShutdownErr = err])))
  /\ last' = NoResult
  /\ UNCHANGED <<writerVars, policyVars, wireVars, now, inflight, historyVars>>
  /\ assembler' = assemblerAfter

\* sendStream.SetWriteDeadline
SetWriteDeadline(t) ==
  /\ panicked = "none"
  /\ Commit(signalWrite(Unlock([Lock(Cur) EXCEPT !.deadline = t])))
  /\ last' = NoResult
  /\ UNCHANGED <<writerVars, policyVars, wireVars, now, inflight, historyVars>>
  /\ assembler' = assemblerAfter

\* flowController.UpdateSendWindow: the window only grows
UpdateSendWindow(s, limit) ==
  [s EXCEPT !.fcSendWindow = IF limit > @ THEN limit ELSE @,
            !.calls = Append(@, <<"UpdateSendWindow", limit>>)]

\* fault injection for C32_UpdateSendWindow: nextFrame is not looked at
hasStreamDataPendingOnly(s) == s.dataForWriting # <<>>

\* updateSendWindow: hasStreamData, read under the mutex
hasStreamData(s) == s.dataForWriting # <<>> \/ s.nextFrame # <<>>

\* sendStream.updateSendWindow, with flowController.UpdateSendWindow
updateSendWindow(limit) ==
  /\ panicked = "none"
  /\ LET s == UpdateSendWindow(Unlock(Lock(Cur)), limit)
         t == IF hasStreamData(Cur) THEN onHasStreamData(s) ELSE s
     IN  /\ Commit(t)
         /\ last' = [NoResult EXCEPT !.op = "updateSendWindow",
                                     !.hasDataCalled = t.hasDataCalled,
                                     !.limit = limit, !.calls = t.calls]
  /\ UNCHANGED <<writerVars, policyVars, wireVars, now, inflight, historyVars>>
  /\ assembler' = assemblerAfter

\* the wall clock advances
Tick ==
  /\ panicked = "none"
  /\ now < MaxTime
  /\ now' = now + 1
  /\ last' = NoResult
  /\ UNCHANGED <<streamVars, fcVars, senderVars, writerVars, policyVars, wireVars, inflight,
                 panicked, historyVars>>
  /\ assembler' = assemblerAfter

(* ------------------------- flow controller ---------------------------- *)
\* flowController.SendWindowSize
SendWindowSize(s) ==
  IF s.fcBytesSent > s.fcSendWindow THEN 0 ELSE s.fcSendWindow - s.fcBytesSent

\* flowController.IsNewlyBlocked: the controller after the call, and its results
IsNewlyBlocked(s) ==
  IF SendWindowSize(s) # 0 \/ s.fcSendWindow = s.fcLastBlockedAt
    THEN [s |-> s, isBlocked |-> FALSE, offset |-> 0]
    ELSE [s |-> [s EXCEPT !.fcLastBlockedAt = s.fcSendWindow],
          isBlocked |-> TRUE, offset |-> s.fcSendWindow]

\* flowController.AddBytesSent
AddBytesSent(s, n) == [s EXCEPT !.fcBytesSent = @ + n]

\* sendStream.hasData
hasData(s) == Len(s.dataForWriting) > 0

(* --------------------------- popStreamFrame --------------------------- *)
\* fault injection for C2_BytesAtTheirOffsets: getDataForWriting that fails to
\* advance dataForWriting past the bytes it copied
getDataForWritingNoAdvance(s, maxBytes) ==
  IF Len(s.dataForWriting) <= maxBytes
    THEN [s |-> signalWrite([s EXCEPT !.dataForWriting = <<>>]),
          data |-> s.dataForWriting]
    ELSE [s |-> IF canBufferStreamFrame(s) THEN signalWrite(s) ELSE s,
          data |-> Prefix(s.dataForWriting, maxBytes)]

\* sendStream.getDataForWriting: the stream after the call and the data put in f
getDataForWriting(s, maxBytes) ==
  IF Len(s.dataForWriting) <= maxBytes
    THEN [s |-> signalWrite([s EXCEPT !.dataForWriting = <<>>]),
          data |-> s.dataForWriting]
    ELSE LET t == [s EXCEPT !.dataForWriting = Suffix(@, maxBytes)]
         IN  [s |-> IF canBufferStreamFrame(t) THEN signalWrite(t) ELSE t,
              data |-> Prefix(s.dataForWriting, maxBytes)]

\* sendStream.popNewStreamFrameWithoutBuffer, for the empty frame f at writeOffset
popNewStreamFrameWithoutBuffer(s, maxBytes, sendWindow) ==
  LET f == [Offset |-> s.writeOffset, Data |-> <<>>, Fin |-> FALSE]
      hasMore(t) == t.dataForWriting # <<>> \/ t.nextFrame # <<>> \/ t.finishedWriting
      got(g) == [s |-> g.s, data |-> g.data, hasMoreData |-> hasMore(g.s)]
      pop(maxDataLen) ==
        IF maxDataLen = 0
          THEN [s |-> s, data |-> <<>>, hasMoreData |-> hasMore(s)]
          ELSE got(getDataForWriting(s, Min(maxDataLen, sendWindow)))
  IN  pop(StreamFrameMaxDataLen(f, maxBytes))

\* fault injection for C6_FlowControl: the frame taken from nextFrame is cut to
\* the budget only
nextFrameMaxDataLenIgnoringWindow(nf, maxBytes, sendWindow) ==
  StreamFrameMaxDataLen(nf, maxBytes)

\* the data length popNewStreamFrame allows the frame nf taken from nextFrame
nextFrameMaxDataLen(nf, maxBytes, sendWindow) ==
  Min(sendWindow, StreamFrameMaxDataLen(nf, maxBytes))

\* sendStream.popNewStreamFrame: f is <<>> when it returns nil
popNewStreamFrame(s, maxBytes, sendWindow) ==
  LET cutTo(t, head) ==
        [s |-> t, f |-> <<[Offset |-> head.Offset, Data |-> head.Data, Fin |-> FALSE]>>,
         hasMoreData |-> t.nextFrame # <<>> \/ t.dataForWriting # <<>>]
      fromNextFrame(nf, maxDataLen) ==
        IF DataLen(nf) > maxDataLen
          THEN cutTo([s EXCEPT !.nextFrame =
                        <<[GetStreamFrame EXCEPT
                             !.Offset = s.writeOffset + maxDataLen,
                             !.Data = Suffix(nf.Data, maxDataLen)]>>],
                     [nf EXCEPT !.Data = Prefix(@, maxDataLen)])
          ELSE cutTo(signalWrite([s EXCEPT !.nextFrame = <<>>]), nf)
      fromData(r) ==
        IF Len(r.data) = 0
          THEN [s |-> r.s, f |-> <<>>, hasMoreData |-> r.hasMoreData]
          ELSE [s |-> r.s,
                f |-> <<[Offset |-> s.writeOffset, Data |-> r.data, Fin |-> FALSE]>>,
                hasMoreData |-> r.hasMoreData]
  IN  IF s.nextFrame # <<>>
        THEN fromNextFrame(s.nextFrame[1],
                           nextFrameMaxDataLen(s.nextFrame[1], maxBytes, sendWindow))
        ELSE fromData(popNewStreamFrameWithoutBuffer(s, maxBytes, sendWindow))

\* fault injection for C14_RetransmissionsFirst: maybeGetRetransmission that
\* leaves the frame it returns at the head of the queue
maybeGetRetransmissionKeepingHead(s, maxBytes) ==
  LET sp == StreamFrameMaybeSplitOffFrame(s.retransmissionQueue[1], maxBytes)
  IN  IF sp.needsSplit
        THEN [s |-> [s EXCEPT !.retransmissionQueue[1] = sp.rest],
              f |-> sp.new, hasMore |-> TRUE]
        ELSE [s |-> s,
              f |-> <<s.retransmissionQueue[1]>>,
              hasMore |-> Len(s.retransmissionQueue) > 1]

\* sendStream.maybeGetRetransmission
maybeGetRetransmission(s, maxBytes) ==
  LET got(sp) ==
        IF sp.needsSplit
          THEN [s |-> [s EXCEPT !.retransmissionQueue[1] = sp.rest],
                f |-> sp.new, hasMore |-> TRUE]
          ELSE [s |-> [s EXCEPT !.retransmissionQueue = Tail(@)],
                f |-> <<s.retransmissionQueue[1]>>,
                hasMore |-> Len(s.retransmissionQueue) > 1]
  IN  got(StreamFrameMaybeSplitOffFrame(s.retransmissionQueue[1], maxBytes))

\* fault injection for C16_FinOnlyFrame: the FIN-only frame is returned whether
\* or not the stream was closed
finOnlyFrameDueBeforeClose(s) == ~s.finSent

\* fault injection for C4_SingleNewFin: the FIN-only frame is returned whether
\* or not the FIN was sent
finOnlyFrameDueAgain(s) == s.finishedWriting

\* whether popNewOrRetransmittedStreamFrame, with nothing left to send, returns
\* a frame that carries only the FIN bit
finOnlyFrameDue(s) == s.finishedWriting /\ ~s.finSent

\* fault injection for C15_CloseCoalescesFin: the FIN bit is left to the
\* FIN-only frame
finBitWithoutCoalescing(t) == FALSE

\* the FIN bit popNewOrRetransmittedStreamFrame puts on a new frame
finBit(t) ==
  /\ t.finishedWriting
  /\ t.dataForWriting = <<>>
  /\ t.nextFrame = <<>>
  /\ ~t.finSent

\* the part of popNewOrRetransmittedStreamFrame after the retransmission queue
popNew(s, maxBytes) ==
  LET none(t, hasMore) ==
        [s |-> t, f |-> <<>>, hasMore |-> hasMore, retransmission |-> FALSE]
      blocked(b) ==
        IF b.isBlocked
          THEN none(queueControlFrame(b.s,
                      [type |-> "STREAM_DATA_BLOCKED", StreamID |-> streamID,
                       MaximumStreamData |-> b.offset]),
                    FALSE)
          ELSE none(s, TRUE)
      withFin(f, t, fin, hasMoreData) ==
        [s |-> [t EXCEPT !.finSent = @ \/ fin],
         f |-> <<[f EXCEPT !.Fin = fin]>>,
         hasMore |-> hasMoreData, retransmission |-> FALSE]
      framed(f, t, hasMoreData) == withFin(f, t, finBit(t), hasMoreData)
      new(r) ==
        IF r.f = <<>>
          \* f is nil: f.DataLen() and f.Fin dereference a nil pointer
          THEN none([r.s EXCEPT !.panic = "nil pointer dereference"], r.hasMoreData)
          ELSE framed(r.f[1],
                      IF DataLen(r.f[1]) > 0
                        THEN AddBytesSent([r.s EXCEPT !.writeOffset = @ + DataLen(r.f[1])],
                                          DataLen(r.f[1]))
                        ELSE r.s,
                      r.hasMoreData)
      windowed(sendWindow) ==
        IF sendWindow = 0
          THEN blocked(IsNewlyBlocked(s))
          ELSE new(popNewStreamFrame(s, maxBytes, sendWindow))
  IN  IF Len(s.dataForWriting) = 0 /\ s.nextFrame = <<>>
        THEN IF finOnlyFrameDue(s)
               THEN [s |-> [s EXCEPT !.finSent = TRUE],
                     f |-> <<[Offset |-> s.writeOffset, Data |-> <<>>, Fin |-> TRUE]>>,
                     hasMore |-> FALSE, retransmission |-> FALSE]
               ELSE none(s, FALSE)
        ELSE windowed(SendWindowSize(s))

\* sendStream.popNewOrRetransmittedStreamFrame
popNewOrRetransmittedStreamFrame(s, maxBytes) ==
  LET fromQueue(m) ==
        IF m.f # <<>> \/ m.hasMore
          THEN [s |-> m.s, f |-> m.f, hasMore |-> TRUE, retransmission |-> TRUE]
          ELSE popNew(m.s, maxBytes)
  IN  IF s.canceledWrite \/ s.closeForShutdownErr # NoErr
        THEN [s |-> s, f |-> <<>>, hasMore |-> FALSE, retransmission |-> FALSE]
      ELSE IF Len(s.retransmissionQueue) > 0
        THEN fromQueue(maybeGetRetransmission(s, maxBytes))
      ELSE popNew(s, maxBytes)

\* the frame popStreamFrame hands to the packet assembler for the STREAM frame f
WireFrame(f) ==
  IF PR_ENABLED
    THEN [type |-> "PR_STREAM", Offset |-> f.Offset, Data |-> f.Data, Fin |-> f.Fin,
          PTDA |-> PTDA, PtdaC |-> PtadC]
    ELSE [type |-> "STREAM", Offset |-> f.Offset, Data |-> f.Data, Fin |-> f.Fin,
          PTDA |-> 0, PtdaC |-> 0]

\* fault injection for C20_PRInvariance: the overhead of the PR fields is taken
\* from the budget whether or not PR is enabled
prMaxBytesAlwaysReduced(maxBytes) == maxBytes - (1 + 8)

\* the budget popStreamFrame passes on
prMaxBytes(maxBytes) == IF PR_ENABLED THEN maxBytes - (1 + 8) ELSE maxBytes

countOutstandingNewOnly(r) ==
  IF r.f # <<>> /\ r.s.panic = "none" /\ ~r.retransmission
    THEN Unlock([r.s EXCEPT !.numOutstandingFrames = @ + 1])
    ELSE Unlock(r.s)

\* popStreamFrame, after popNewOrRetransmittedStreamFrame returned r: a frame
\* that is returned is counted as outstanding, then the mutex is released
countOutstanding(r) ==
  IF r.f # <<>> /\ r.s.panic = "none"
    THEN Unlock([r.s EXCEPT !.numOutstandingFrames = @ + 1])
    ELSE Unlock(r.s)

\* sendStream.popStreamFrame
popStreamFrame(maxBytes) ==
  /\ panicked = "none"
  /\ \E r \in {popNewOrRetransmittedStreamFrame(Lock(Cur), prMaxBytes(maxBytes))} :
     \E s \in {countOutstanding(r)} :
     \E out \in {IF r.f # <<>> /\ s.panic = "none" THEN <<WireFrame(r.f[1])>> ELSE <<>>} :
       LET isNew == out # <<>> /\ ~r.retransmission
           fins == IF out # <<>> /\ out[1].Fin THEN 1 ELSE 0
       IN  /\ out # <<>> => BagCardinality(inflight) < MaxInflight
           /\ Commit(s)
           /\ inflight' = IF out # <<>> THEN inflight (+) SetToBag({out[1]}) ELSE inflight
           /\ last' = [NoResult EXCEPT !.op = "popStreamFrame",
                                       !.frame = out, !.hasMore = r.hasMore,
                                       !.retransmission = r.retransmission,
                                       !.maxBytes = maxBytes]
           /\ sumNew' = IF isNew THEN sumNew + Len(out[1].Data) ELSE sumNew
           /\ lastNewOffset' = IF isNew THEN out[1].Offset ELSE lastNewOffset
           /\ finFrames' = Min(finFrames + fins, 2)
           /\ newFinFrames' = IF isNew THEN Min(newFinFrames + fins, 2) ELSE newFinFrames
  /\ UNCHANGED <<writerVars, policyVars, wireVars, now, presented, offered, nWrites, ackedBytes>>
  /\ assembler' = assemblerAfter

(* ---------------------- ack and loss callbacks ------------------------ *)
\* sendStream.frameAcked and sendStream.prStreamframeAcked (the same statements)
frameAcked(s) ==
  IF s.canceledWrite THEN s
  ELSE LET t == [Lock(s) EXCEPT !.numOutstandingFrames = @ - 1]
           c == isNewlyCompleted(t)
       IN  IF t.numOutstandingFrames < 0
             THEN [t EXCEPT !.panic = "numOutStandingFrames negative"]
             ELSE onStreamCompleted(Unlock(c.s), c.newly)

\* fault injection for C8_CancelAbsorbs: queueRetransmission without the check
\* of canceledWrite
queueRetransmissionAfterCancel(s, sf) ==
  LET t == [s EXCEPT !.retransmissionQueue = Append(@, sf),
                     !.numOutstandingFrames = @ - 1]
  IN  IF t.numOutstandingFrames < 0
        THEN [t EXCEPT !.panic = "numOutStandingFrames negative"]
        ELSE onHasStreamData(t)

\* sendStream.queueRetransmission, for the STREAM frame sf
queueRetransmission(s, sf) ==
  IF s.canceledWrite THEN s
  ELSE LET t == [Lock(s) EXCEPT !.retransmissionQueue = Append(@, sf),
                          !.numOutstandingFrames = @ - 1]
       IN  IF t.numOutstandingFrames < 0
             THEN [t EXCEPT !.panic = "numOutStandingFrames negative"]
             ELSE onHasStreamData(Unlock(t))

\* fault injection for C18_LostFrameQueuedOnce: prAckNotifyQueueRetransmission
\* that leaves the skipped frame counted as outstanding
prAckNotifyQueueRetransmissionKeepingOutstanding(s, prAckNf) ==
  IF s.canceledWrite THEN s
  ELSE onHasStreamData([s EXCEPT !.prAckNotifyRetransmissionQueue = Append(@, prAckNf)])

\* sendStream.prAckNotifyQueueRetransmission, for the PR_ACK_NOTIFY frame prAckNf
prAckNotifyQueueRetransmission(s, prAckNf) ==
  IF s.canceledWrite THEN s
  ELSE LET t == [Lock(s) EXCEPT !.prAckNotifyRetransmissionQueue = Append(@, prAckNf),
                          !.numOutstandingFrames = @ - 1]
       IN  IF t.numOutstandingFrames < 0
             THEN [t EXCEPT !.panic = "numOutStandingFrames negative"]
             ELSE onHasStreamData(Unlock(t))

\* the switch of prQueueRetransmission: whether the lost PR_STREAM frame is
\* replaced by a PR_ACK_NOTIFY, retran_threshold being the draw of rand.Intn(10000)
prRetranEnabled(frame, retran_threshold) ==
  frame.PtdaC = 128 /\ frame.PtdaC > retran_threshold

\* sendStream.prQueueRetransmission
prQueueRetransmission(s, frame, retran_threshold) ==
  IF ~prRetranEnabled(frame, retran_threshold)
    THEN queueRetransmission(s, [Offset |-> frame.Offset, Data |-> frame.Data,
                                 Fin |-> frame.Fin])
    ELSE prAckNotifyQueueRetransmission(s,
           [type |-> "PR_ACK_NOTIFY", StreamID |-> streamID, Offset |-> frame.Offset,
            PRDataLen |-> Len(frame.Data), Fin |-> frame.Fin,
            PTDA |-> frame.PTDA, PtdaC |-> frame.PtdaC])

\* the packet assembler's OnAcked callback for a frame popStreamFrame returned
OnAcked(frame) ==
  /\ panicked = "none"
  /\ BagIn(frame, inflight)
  /\ inflight' = inflight (-) SetToBag({frame})
  /\ Commit(frameAcked(Cur))
  /\ ackedBytes' = ackedBytes + Len(frame.Data)
  /\ last' = [NoResult EXCEPT !.op = "OnAcked"]
  /\ UNCHANGED <<writerVars, policyVars, wireVars, now, presented, offered, nWrites, sumNew,
                 lastNewOffset, finFrames, newFinFrames>>
  /\ assembler' = assemblerAfter

\* the packet assembler's OnLost callback for a frame popStreamFrame returned
OnLost(frame) ==
  /\ panicked = "none"
  /\ BagIn(frame, inflight)
  /\ inflight' = inflight (-) SetToBag({frame})
  /\ \E retran_threshold \in (IF frame.type = "PR_STREAM" /\ frame.PtdaC = 128
                                 THEN RandDraws ELSE {NoDraw}) :
       LET s == IF frame.type = "PR_STREAM"
                  THEN prQueueRetransmission(Cur, frame, retran_threshold)
                  ELSE queueRetransmission(Cur, [Offset |-> frame.Offset,
                                                 Data |-> frame.Data, Fin |-> frame.Fin])
       IN  /\ Len(s.prAckNotifyRetransmissionQueue) <= MaxNotify
           /\ Commit(s)
           /\ last' = [NoResult EXCEPT !.op = "OnLost",
                                       !.frame = <<frame>>,
                                       !.hasDataCalled = s.hasDataCalled,
                                       !.draw = retran_threshold]
  /\ UNCHANGED <<writerVars, policyVars, wireVars, now, historyVars>>
  /\ assembler' = assemblerAfter

(* --------------------------- specification ---------------------------- *)
\* the application writes and closes, the packet assembler pops frames, the peer
\* opens the flow-control window
Data ==
  \/ \E len \in WriteLens : Write(len)
  \/ WriteWakeChan
  \/ Close
  \/ \E limit \in WindowLimits : updateSendWindow(limit)
  \/ \E maxBytes \in MaxBytesChoices : popStreamFrame(maxBytes)

\* the packet assembler reports the fate of the frames it sent
Loss ==
  \/ \E frame \in BagToSet(inflight) : OnAcked(frame)
  \/ \E frame \in BagToSet(inflight) : OnLost(frame)

\* the application or the peer cancels the send side
Cancel ==
  \/ \E errorCode \in CancelWriteCodes : CancelWrite(errorCode)
  \/ \E errorCode \in StopSendingCodes : handleStopSendingFrame(errorCode)

\* the connection shuts the stream down
Shut == \E err \in ShutdownErrs : closeForShutdown(err)

\* the connection shuts the stream down with whatever error, the nil error
\* included
ShutAny == \E err \in ShutdownErrs \cup {NoErr} : closeForShutdown(err)

\* write deadlines and the clock
Time ==
  \/ \E t \in 0..MaxTime : SetWriteDeadline(t)
  \/ WriteWakeTimer
  \/ Tick

Next == Data \/ Loss \/ Cancel \/ Shut \/ Time

Spec == Init /\ [][Next]_vars

\* the data path alone: no cancellation, no shutdown, no deadline
SpecData == Init /\ [][Data \/ Loss]_vars

\* the data path with cancellation
SpecCancel == Init /\ [][Data \/ Loss \/ Cancel]_vars

\* the writer against everything that can end its call; frames are not reported
\* back
SpecWriter == Init /\ [][Data \/ Cancel \/ Shut \/ Time]_vars

\* the data path with a shutdown that may carry the nil error
SpecShutdown == Init /\ [][Data \/ ShutAny]_vars

\* the data path under the probability policy
SpecProbability == InitProbability /\ [][Data \/ Loss]_vars

\* the data path for every value of PTDA
SpecPolicy == InitPolicy /\ [][Data \/ Loss]_vars

\* the data path under the probability policy, with a packet assembler that
\* keeps calling popStreamFrame and reports every frame it sent as
\* acknowledged or lost
FairSpecProbability ==
  /\ SpecProbability
  /\ WF_vars(\E maxBytes \in MaxBytesChoices : popStreamFrame(maxBytes))
  /\ WF_vars(Loss)

\* the flow-control limit with which the peer admits every byte the
\* application writes
WakeUpWindowLimits == {MaxWrites * MaxWriteLen}

\* the budgets with which popStreamFrame can take at least one byte of new
\* data at the current offset
admitsData(maxBytes) ==
  StreamFrameMaxDataLen([Offset |-> writeOffset], prMaxBytes(maxBytes)) >= 1

\* the packet assembler calls popStreamFrame for a stream it holds as one that
\* has data, with a budget that admits data
assemblerPop(maxBytes) ==
  /\ assembler = "notified"
  /\ admitsData(maxBytes)
  /\ popStreamFrame(maxBytes)

\* a new stream, with or without PR, next to a packet assembler that pops
\* frames from the streams it was notified about
InitWakeUp ==
  /\ newSendStream
  /\ assembler = "idle"
  /\ noWire
  /\ PR_ENABLED \in BOOLEAN
  /\ PTDA = 128
  /\ PtadC = 0

\* the application writes, the packet assembler pops when it was notified, the
\* peer opens the window and acknowledges the frames, and the stream is
\* canceled, shut down or given a deadline; the stream is not closed and no
\* frame is lost
WakeUp ==
  \/ \E len \in WriteLens : Write(len)
  \/ WriteWakeChan
  \/ \E limit \in WakeUpWindowLimits : updateSendWindow(limit)
  \/ \E maxBytes \in MaxBytesChoices : assemblerPop(maxBytes)
  \/ \E frame \in BagToSet(inflight) : OnAcked(frame)
  \/ Cancel
  \/ Shut
  \/ Time

\* the goroutine of a Write that was woken up, by writeChan or by its deadline
\* timer, is scheduled
FairSpecWakeUp ==
  /\ InitWakeUp
  /\ [][WakeUp]_vars
  /\ WF_vars(WriteWakeChan)
  /\ WF_vars(WriteWakeTimer)

\* other goroutines call Write while a Write is in progress
Concurrent ==
  \/ WriteBlocks
  \/ \E len \in WriteLens : WriteUnblocked(len)

\* the data path with concurrent calls of Write
SpecConcurrent == Init /\ [][Data \/ Concurrent]_vars

\* ---- the frame codec on its own ----

\* the well-formed frames the codec functions are applied to: every
\* combination of the OFF, LEN and FIN flags, every policy bit of PTDA with the
\* flags P, T, D, A set as the parsers set them, and values of ptdaC that take
\* one and two varint bytes
PRStreamFrames ==
  {[type |-> "PR_STREAM", StreamID |-> streamID, Offset |-> offset, Fin |-> fin,
    DataLenPresent |-> dataLenPresent, PTDA |-> ptda,
    P |-> ptda = 128, T |-> ptda = 64, D |-> ptda = 32, A |-> ptda = 16,
    ptdaC |-> ptdaC, Data |-> Bytes(1, n)] :
     offset \in WireOffsets, fin \in BOOLEAN, dataLenPresent \in BOOLEAN,
     ptda \in WirePTDA, ptdaC \in WirePtdaC, n \in WireDataLens}

PRAckNotifyFrames ==
  {[type |-> "PR_ACK_NOTIFY", StreamID |-> streamID, Offset |-> offset,
    PRDataLen |-> n, Fin |-> fin, DataLenPresent |-> dataLenPresent, PTDA |-> ptda,
    P |-> ptda = 128, T |-> ptda = 64, D |-> ptda = 32, A |-> ptda = 16,
    PtdaC |-> ptdaC] :
     offset \in WireOffsets, fin \in BOOLEAN, dataLenPresent \in BOOLEAN,
     ptda \in WirePTDA, ptdaC \in WirePtdaC, n \in WireDataLens}

PRDatagramFrames ==
  {[type |-> "PR_DATAGRAM", DataLenPresent |-> dataLenPresent, Data |-> Bytes(1, n),
    PTDA |-> ptda, P |-> ptda = 128, T |-> ptda = 64, D |-> ptda = 32,
    A |-> ptda = 16, ptdaC |-> ptdaC] :
     dataLenPresent \in BOOLEAN, ptda \in WirePTDA, ptdaC \in WirePtdaC,
     n \in WireDataLens}

\* a new stream next to which one frame is handed to the codec
InitWire ==
  /\ newSendStream
  /\ assembler = "free"
  /\ PR_ENABLED = TRUE
  /\ PTDA = 128
  /\ PtadC = 0
  /\ \E f \in PRStreamFrames \cup PRAckNotifyFrames \cup PRDatagramFrames :
       wireFrame = <<f>>
  /\ wireOut = NoWireOut

wireRest ==
  <<streamVars, fcVars, senderVars, writerVars, policyVars, now, inflight, panicked,
    historyVars, last, assembler>>

\* f.MaxDataLen(maxSize, version) on a PR_STREAM frame
MaxDataLen(maxSize) ==
  /\ wireFrame # <<>>
  /\ wireFrame[1].type = "PR_STREAM"
  /\ wireOut' = [op |-> "MaxDataLen", maxSize |-> maxSize,
                 n |-> PRStreamFrame_MaxDataLen(wireFrame[1], maxSize)]
  /\ UNCHANGED <<wireFrame, wireRest>>

\* f.MaybeSplitOffFrame(maxSize, version) on a PR_STREAM frame; wireFrame keeps
\* the frame as it was before the call
MaybeSplitOffFrame(maxSize) ==
  /\ wireFrame # <<>>
  /\ wireFrame[1].type = "PR_STREAM"
  /\ \E r \in {PRStreamFrame_MaybeSplitOffFrame(wireFrame[1], maxSize)} :
       wireOut' = [op |-> "MaybeSplitOffFrame", maxSize |-> maxSize, new |-> r.new,
                   split |-> r.split, f |-> r.f, panic |-> r.panic]
  /\ UNCHANGED <<wireFrame, wireRest>>

\* f.Append(nil, version)
AppendFrame ==
  /\ wireFrame # <<>>
  /\ \E r \in {CASE wireFrame[1].type = "PR_STREAM" -> PRStreamFrame_Append(wireFrame[1])
                 [] wireFrame[1].type = "PR_ACK_NOTIFY" ->
                      PRAckNotifyFrame_Append(wireFrame[1])
                 [] OTHER -> PRDatagramFrame_Append(wireFrame[1])} :
       wireOut' = [op |-> "Append", b |-> r.b, err |-> r.err]
  /\ UNCHANGED <<wireFrame, wireRest>>

\* the bytes Append produced are handed to the parser of the frame's kind
ParseFrame ==
  /\ wireFrame # <<>>
  /\ wireOut.op = "Append"
  /\ wireOut.err = NoWireErr
  /\ \E r \in {CASE wireFrame[1].type = "PR_STREAM" -> parsePRStreamFrame(wireOut.b)
                 [] wireFrame[1].type = "PR_ACK_NOTIFY" ->
                      parsePRAckNotifyFrame(wireOut.b)
                 [] OTHER -> parsePRDatagramFrame(wireOut.b)} :
       wireOut' = [op |-> "parse", b |-> wireOut.b, frame |-> r.frame, err |-> r.err,
                   panic |-> r.panic]
  /\ UNCHANGED <<wireFrame, wireRest>>

Wire ==
  \/ \E maxSize \in WireBudgets : MaxDataLen(maxSize)
  \/ \E maxSize \in WireBudgets : MaybeSplitOffFrame(maxSize)
  \/ AppendFrame
  \/ ParseFrame

SpecWire == InitWire /\ [][Wire]_vars

(* ------------------------------ properties ---------------------------- *)
\* the step is a popStreamFrame call that returned a frame
PopFrame == last'.op = "popStreamFrame" /\ last'.frame # <<>>

\* the step is a popStreamFrame call that returned a newly originated frame
PopNewFrame == PopFrame /\ ~last'.retransmission

\* the step is a popStreamFrame call that returned a retransmission
PopRetransmission == PopFrame /\ last'.retransmission

\* C1: the newly originated frames returned by popStreamFrame have strictly
\* increasing offsets without gaps (each starts where the previous one ended,
\* the first at 0), writeOffset never decreases, and writeOffset is the sum of
\* the data lengths of the newly originated frames.
C1_NewFrameOffsets ==
  [][/\ writeOffset' >= writeOffset
     /\ writeOffset' = sumNew'
     /\ PopNewFrame => /\ last'.frame[1].Offset > lastNewOffset
                       /\ last'.frame[1].Offset = sumNew]_vars

\* C2: every frame popStreamFrame returned carries at offset o the bytes the
\* writer presented at stream positions o .. o+len-1 (position k is index k+1
\* of presented).
C2_BytesAtTheirOffsets ==
  \A f \in BagToSet(inflight) :
    /\ f.Offset + Len(f.Data) <= Len(presented)
    /\ \A j \in 1..Len(f.Data) : f.Data[j] = presented[f.Offset + j]

\* C2 happens: a retransmission that starts past offset 0 and carries data was
\* returned
C2_Witness ==
  /\ last.op = "popStreamFrame"
  /\ last.retransmission
  /\ last.frame # <<>>
  /\ last.frame[1].Offset > 0
  /\ Len(last.frame[1].Data) > 0

\* the data length of nextFrame, 0 when there is none
NextFrameLen == IF nextFrame = <<>> THEN 0 ELSE Len(nextFrame[1].Data)

\* Between two calls of Write, the bytes Write reported as written are the bytes
\* that were framed or sit in nextFrame, and no other byte is in a frame.
WrittenBytesAccounted ==
  /\ wpc = "idle" => writeOffset + NextFrameLen = Len(presented)
  /\ nextFrame # <<>> =>
       /\ nextFrame[1].Offset = writeOffset
       /\ \A j \in 1..NextFrameLen :
            /\ writeOffset + j <= Len(presented)
            /\ nextFrame[1].Data[j] = presented[writeOffset + j]
  /\ \A f \in BagToSet(inflight) :
       /\ f.Offset + Len(f.Data) <= writeOffset
       /\ \A j \in 1..Len(f.Data) : f.Data[j] = presented[f.Offset + j]

C4_SingleFin ==
  [][PopFrame => /\ finFrames' <= 1
                 /\ finSent => /\ Len(last'.frame[1].Data) = 0
                               /\ ~last'.frame[1].Fin]_vars

\* C4 for newly originated frames: at most one newly originated frame carries
\* FIN, and once finSent holds every frame popStreamFrame returns is a
\* retransmission of bytes below writeOffset.
C4_SingleNewFin ==
  [][PopFrame => /\ newFinFrames' <= 1
                 /\ finSent => /\ last'.retransmission
                               /\ last'.frame[1].Offset + Len(last'.frame[1].Data)
                                    <= writeOffset]_vars

\* C4 happens: after the FIN was sent a retransmission with data was returned
C4_Witness ==
  /\ finSent
  /\ newFinFrames = 1
  /\ last.op = "popStreamFrame"
  /\ last.retransmission
  /\ last.frame # <<>>
  /\ Len(last.frame[1].Data) > 0

\* C5: onStreamCompleted is called at most once, only in the step that sets
\* completed, and completed is set only in a state where (finSent or
\* canceledWrite), no frame is outstanding and the retransmission queue is empty.
C5_CompletionOnce ==
  [][/\ completedCalls' <= 1
     /\ completedCalls' # completedCalls => ~completed /\ completed'
     /\ completed => completed'
     /\ ~completed /\ completed' =>
          /\ finSent' \/ canceledWrite'
          /\ numOutstandingFrames' = 0
          /\ retransmissionQueue' = <<>>
          /\ completedCalls' = completedCalls + 1]_vars

\* C5 happens: the acknowledgement of the last outstanding frame completed a
\* stream whose FIN was sent
C5_Witness ==
  /\ completed
  /\ completedCalls = 1
  /\ finSent
  /\ ~canceledWrite
  /\ last.op = "OnAcked"

\* C6: a newly originated frame is no longer than SendWindowSize() when it is
\* popped, AddBytesSent and writeOffset advance by its data length, bytes sent
\* never exceed the send window, and a retransmission changes neither
\* writeOffset nor the bytes sent.
C6_FlowControl ==
  [][/\ fcBytesSent' <= fcSendWindow'
     /\ PopNewFrame =>
          /\ Len(last'.frame[1].Data) <= SendWindowSize(Cur)
          /\ fcBytesSent' = fcBytesSent + Len(last'.frame[1].Data)
          /\ writeOffset' = writeOffset + Len(last'.frame[1].Data)
     /\ PopRetransmission =>
          /\ writeOffset' = writeOffset
          /\ fcBytesSent' = fcBytesSent]_vars

\* C6 happens: a newly originated frame used up the send window and left data
\* behind in nextFrame
C6_Witness ==
  /\ last.op = "popStreamFrame"
  /\ ~last.retransmission
  /\ last.frame # <<>>
  /\ Len(last.frame[1].Data) > 0
  /\ fcBytesSent = fcSendWindow
  /\ nextFrame # <<>>

\* C7 as claimed: a suspended Write that wakes with bytes of its input still in
\* dataForWriting after a cancellation or a shutdown (and before its deadline)
\* returns the sticky error and the number of bytes framed, never a nil error.
C7_CanceledWriteFails ==
  [][(/\ wpc = "wait"
      /\ wpc' = "idle"
      /\ dataForWriting # <<>>
      /\ canceledWrite \/ closedForShutdown
      /\ ~(deadline # 0 /\ now >= deadline))
     => /\ last'.err # NoErr
        /\ last'.err \in {cancelWriteErr, closeForShutdownErr}
        /\ last'.n = Len(p) - Len(dataForWriting)]_vars

\* the operations that cancel the send side
CancelOps == {"CancelWrite", "handleStopSendingFrame"}

\* C8: once canceledWrite holds, popStreamFrame returns (nil, false), OnAcked
\* and OnLost change nothing of the stream and call nothing on the sender, and
\* a new Write returns 0 and an error at once.
C8_CancelAbsorbs ==
  [][canceledWrite =>
       /\ last'.op = "popStreamFrame" =>
            /\ last'.frame = <<>>
            /\ ~last'.hasMore
            /\ UNCHANGED <<streamVars, fcVars, senderVars, panicked>>
       /\ last'.op \in {"OnAcked", "OnLost"} =>
            /\ ~last'.hasDataCalled
            /\ UNCHANGED <<streamVars, fcVars, senderVars, panicked>>
       /\ last'.op = "Write" /\ wpc = "idle" =>
            /\ last'.n = 0
            /\ last'.err # NoErr
            /\ UNCHANGED <<streamVars, fcVars, senderVars, panicked>>]_vars

\* C8 happens: a frame that was in flight when the stream was canceled was
\* reported lost
C8_Witness ==
  /\ canceledWrite
  /\ last.op = "OnLost"
  /\ writeOffset > 0

\* C9: the first CancelWrite(code) or handleStopSendingFrame(code) queues one
\* RESET_STREAM with final size writeOffset (the data length of the newly
\* originated frames) and error code code, empties the retransmission queue and
\* zeroes numOutstandingFrames; a later one changes nothing.
C9_FirstCancelResets ==
  [][last'.op \in CancelOps =>
       IF ~canceledWrite
         THEN /\ controlFrames' =
                   Append(controlFrames,
                          [type |-> "RESET_STREAM", StreamID |-> streamID,
                           FinalSize |-> sumNew, ErrorCode |-> last'.code])
              /\ writeOffset = sumNew
              /\ retransmissionQueue' = <<>>
              /\ numOutstandingFrames' = 0
              /\ canceledWrite'
              /\ cancelWriteErr' # NoErr
              /\ cancelWriteErr'.code = last'.code
         ELSE UNCHANGED <<streamVars, fcVars, senderVars, panicked>>]_vars

\* C9 happens: after data was sent and the stream canceled, a second
\* cancellation with another code was made
C9_Witness ==
  /\ canceledWrite
  /\ last.op \in CancelOps
  /\ last.code # cancelWriteErr.code
  /\ writeOffset > 0
  /\ Len(controlFrames) > 0

\* the step is a Write call that failed its entry checks
WriteFailsAtEntry ==
  /\ wpc = "idle"
  /\ last'.op = "Write"
  /\ nWrites' = nWrites
  /\ last'.err # NoErr

\* the deadline of the stream has passed
DeadlinePassed == deadline # 0 /\ now >= deadline

\* C10 as claimed: the error of a Write that fails at entry is chosen in the
\* order shutdown, closed, canceled, deadline; n is 0 and the stream is unchanged.
C10_EntryPrecedence ==
  [][WriteFailsAtEntry =>
       /\ last'.err = IF closedForShutdown THEN closeForShutdownErr
                      ELSE IF finishedWriting THEN errWriteOnClosed
                      ELSE IF canceledWrite THEN cancelWriteErr
                      ELSE errDeadline
       /\ last'.n = 0
       /\ UNCHANGED <<streamVars, fcVars, senderVars, panicked>>]_vars

\* C10 with the order of the code: the error of a Write that fails at entry is
\* chosen in the order closed, canceled, shutdown, deadline; n is 0 and the
\* stream is unchanged.
C10_EntryPrecedenceOfTheCode ==
  [][WriteFailsAtEntry =>
       /\ closedForShutdown \/ finishedWriting \/ canceledWrite \/ DeadlinePassed
       /\ last'.err = IF finishedWriting THEN errWriteOnClosed
                      ELSE IF canceledWrite THEN cancelWriteErr
                      ELSE IF closedForShutdown THEN closeForShutdownErr
                      ELSE errDeadline
       /\ last'.n = 0
       /\ UNCHANGED <<streamVars, fcVars, senderVars, panicked>>]_vars

\* C10 happens: a Write on a stream that is closed and shut down failed with
\* the error of the closed stream
C10_Witness ==
  /\ last.op = "Write"
  /\ finishedWriting
  /\ closedForShutdown
  /\ last.err = errWriteOnClosed

\* C11: once closeForShutdown(err) was called, whatever err is, popStreamFrame
\* returns (nil, false), the stream queues no control frame, a suspended Write
\* that runs returns, and a new Write (on a stream neither closed nor canceled)
\* returns 0 and the stored shutdown error at once.
C11_ShutdownAbsorbs ==
  [][closedForShutdown =>
       /\ controlFrames' = controlFrames
       /\ last'.op = "popStreamFrame" => last'.frame = <<>> /\ ~last'.hasMore
       /\ last'.op \in {"Write", "WriteSuspended"} =>
            /\ last'.op = "Write"
            /\ wpc = "idle" /\ ~finishedWriting /\ ~canceledWrite =>
                 /\ last'.n = 0
                 /\ last'.err # NoErr
                 /\ last'.err = closeForShutdownErr]_vars

\* C12: Close on a stream closed for shutdown returns nil, Close on a canceled
\* stream that is not shut down returns an error, and neither changes the
\* stream or calls onHasStreamData; Close on an open stream returns nil and sets
\* finishedWriting, and a second Close returns nil and leaves the state as it is.
C12_CloseResult ==
  [][last'.op = "Close" =>
       IF closedForShutdown
         THEN /\ last'.err = NoErr
              /\ ~last'.hasDataCalled
              /\ UNCHANGED <<streamVars, fcVars, senderVars, panicked>>
       ELSE IF canceledWrite
         THEN /\ last'.err = errCloseCanceled
              /\ ~last'.hasDataCalled
              /\ UNCHANGED <<streamVars, fcVars, senderVars, panicked>>
       ELSE /\ last'.err = NoErr
            /\ finishedWriting'
            /\ finishedWriting =>
                 UNCHANGED <<streamVars, fcVars, senderVars, panicked>>]_vars

\* C12 happens: Close was called on a canceled stream and returned its error
\* without closing the stream
C12_Witness ==
  /\ last.op = "Close"
  /\ last.err = errCloseCanceled
  /\ canceledWrite
  /\ ~finishedWriting

C14_RetransmissionsFirst ==
  [][/\ (/\ last'.op = "popStreamFrame"
         /\ retransmissionQueue # <<>>
         /\ ~canceledWrite
         /\ closeForShutdownErr = NoErr)
        => LET h == Head(retransmissionQueue)
               out == last'.frame
               n == Len(out[1].Data)
           IN  /\ UNCHANGED <<writeOffset, finSent, dataForWriting, nextFrame,
                              fcBytesSent, panicked>>
               /\ \/ /\ out = <<>>
                     /\ last'.hasMore
                     /\ retransmissionQueue' = retransmissionQueue
                  \/ /\ out # <<>>
                     /\ last'.retransmission
                     /\ out[1].Offset = h.Offset
                     /\ out[1].Data = h.Data
                     /\ out[1].Fin = h.Fin
                     /\ retransmissionQueue' = Tail(retransmissionQueue)
                  \/ /\ out # <<>>
                     /\ last'.retransmission
                     /\ out[1].Offset = h.Offset
                     /\ 0 < n /\ n < Len(h.Data)
                     /\ out[1].Data = Prefix(h.Data, n)
                     /\ ~out[1].Fin
                     /\ retransmissionQueue' =
                          <<[Offset |-> h.Offset + n, Data |-> Suffix(h.Data, n),
                             Fin |-> h.Fin]>> \o Tail(retransmissionQueue)
     /\ last'.op = "OnLost" /\ retransmissionQueue' # retransmissionQueue =>
          /\ Len(retransmissionQueue') = Len(retransmissionQueue) + 1
          /\ Prefix(retransmissionQueue', Len(retransmissionQueue)) = retransmissionQueue]_vars

\* C14 happens: with new data waiting, the head part of a split retransmission
\* was returned and its tail stayed at the head of the queue
C14_Witness ==
  /\ last.op = "popStreamFrame"
  /\ last.retransmission
  /\ last.frame # <<>>
  /\ Len(last.frame[1].Data) > 0
  /\ retransmissionQueue # <<>>
  /\ retransmissionQueue[1].Offset = last.frame[1].Offset + Len(last.frame[1].Data)
  /\ nextFrame # <<>> \/ dataForWriting # <<>>

\* C15: when Close was called before the last unsent byte was popped, the newly
\* originated frame that takes that byte carries the FIN bit and marks the FIN
\* as sent; a new frame with the FIN bit leaves nothing unsent behind it; and a
\* new frame with the FIN bit and no data is returned only when no byte was
\* waiting in nextFrame or dataForWriting and the FIN was not sent before.
C15_CloseCoalescesFin ==
  [][PopNewFrame =>
       LET f == last'.frame[1]
       IN  /\ (/\ finishedWriting
               /\ Len(f.Data) > 0
               /\ dataForWriting' = <<>>
               /\ nextFrame' = <<>>) => f.Fin /\ finSent'
           /\ f.Fin => /\ finishedWriting
                       /\ dataForWriting' = <<>>
                       /\ nextFrame' = <<>>
                       /\ f.Offset + Len(f.Data) = Len(presented)
           /\ f.Fin /\ Len(f.Data) = 0 =>
                /\ dataForWriting = <<>>
                /\ nextFrame = <<>>
                /\ ~finSent]_vars

\* C15 happens: a Write followed by Close before any frame was popped came out
\* as one new frame at offset 0 with all the bytes and the FIN bit
C15_Witness ==
  /\ last.op = "popStreamFrame"
  /\ last.frame # <<>>
  /\ ~last.retransmission
  /\ last.frame[1].Fin
  /\ last.frame[1].Offset = 0
  /\ Len(last.frame[1].Data) > 0
  /\ last.frame[1].Data = presented
  /\ finFrames = 1
  /\ finSent

\* C16: popStreamFrame on a stream that is neither canceled nor shut down and has
\* nothing in retransmissionQueue, dataForWriting and nextFrame returns, when
\* the stream is closed and the FIN was not sent, a new frame without data, with
\* the FIN bit, at writeOffset, and hasMore false, and marks the FIN as sent,
\* whatever the send window is; otherwise it returns (nil, false) and leaves the
\* stream as it is.
C16_FinOnlyFrame ==
  [][(/\ last'.op = "popStreamFrame"
      /\ ~canceledWrite
      /\ ~closedForShutdown
      /\ retransmissionQueue = <<>>
      /\ dataForWriting = <<>>
      /\ nextFrame = <<>>)
     => IF finishedWriting /\ ~finSent
          THEN /\ last'.frame # <<>>
               /\ ~last'.retransmission
               /\ Len(last'.frame[1].Data) = 0
               /\ last'.frame[1].Fin
               /\ last'.frame[1].Offset = writeOffset
               /\ ~last'.hasMore
               /\ finSent'
               /\ UNCHANGED <<writeOffset, fcVars>>
          ELSE /\ last'.frame = <<>>
               /\ ~last'.hasMore
               /\ UNCHANGED <<streamVars, fcVars, senderVars, panicked>>]_vars

\* C16 happens: with the send window used up, the FIN-only frame was returned at
\* the end of the data
C16_Witness ==
  /\ last.op = "popStreamFrame"
  /\ last.frame # <<>>
  /\ last.frame[1].Fin
  /\ Len(last.frame[1].Data) = 0
  /\ last.frame[1].Offset = writeOffset
  /\ writeOffset > 0
  /\ SendWindowSize(Cur) = 0
  /\ ~last.hasMore
  /\ finSent

\* C17: under the probability policy (PTDA = 0x80) OnLost of a PR_STREAM frame
\* with parameter PtdaC, on a stream that is not canceled, queues a
\* PR_ACK_NOTIFY instead of a retransmission exactly when PtdaC exceeds the
\* draw of rand.Intn(10000): always when PtdaC is 10000, never when it is 0.
C17_ProbabilityPolicy ==
  [][(/\ last'.op = "OnLost"
      /\ ~canceledWrite
      /\ last'.frame[1].type = "PR_STREAM"
      /\ last'.frame[1].PTDA = 128)
     => LET c == last'.frame[1].PtdaC
            skipped == prAckNotifyRetransmissionQueue' # prAckNotifyRetransmissionQueue
            retransmitted == retransmissionQueue' # retransmissionQueue
        IN  /\ skipped # retransmitted
            /\ last'.draw # NoDraw => (skipped <=> c > last'.draw)
            /\ c >= RandBound => skipped
            /\ c = 0 => retransmitted]_vars

C19_NotifyQueueDrained ==
  [][/\ PopNewFrame /\ Len(last'.frame[1].Data) > 0 =>
          prAckNotifyRetransmissionQueue = <<>>
     /\ PopFrame /\ prAckNotifyRetransmissionQueue # <<>> =>
          Len(prAckNotifyRetransmissionQueue') < Len(prAckNotifyRetransmissionQueue)]_vars

\* C20: with PR_ENABLED false popStreamFrame returns STREAM frames only, cut to
\* the whole of maxBytes (a new frame takes as many of the waiting bytes as the
\* send window and maxBytes allow, a retransmission is the head of the queue
\* when it fits maxBytes), a lost frame goes through queueRetransmission without
\* a draw, and prAckNotifyRetransmissionQueue stays empty; with PR_ENABLED true
\* or false the frames sent carry the bytes of the Write calls at their stream
\* offsets and the FIN bit at the end of the written bytes, so the bytes and the
\* FIN position on the wire depend on the Write and Close calls only.
C20_PRInvariance ==
  [][/\ ~PR_ENABLED =>
          /\ prAckNotifyRetransmissionQueue' = <<>>
          /\ \A f \in BagToSet(inflight') : f.type = "STREAM"
          /\ PopNewFrame =>
               LET avail == IF nextFrame # <<>> THEN NextFrameLen ELSE Len(dataForWriting)
                   fit == StreamFrameMaxDataLen([Offset |-> writeOffset], last'.maxBytes)
               IN  Len(last'.frame[1].Data) = Min(Min(avail, SendWindowSize(Cur)), fit)
          /\ PopRetransmission =>
               LET h == Head(retransmissionQueue)
               IN  StreamFrameLength(h) <= last'.maxBytes =>
                     /\ last'.frame[1].Data = h.Data
                     /\ retransmissionQueue' = Tail(retransmissionQueue)
          /\ last'.op = "OnLost" =>
               /\ last'.draw = NoDraw
               /\ retransmissionQueue' =
                    Append(retransmissionQueue,
                           [Offset |-> last'.frame[1].Offset,
                            Data |-> last'.frame[1].Data,
                            Fin |-> last'.frame[1].Fin])
     /\ \A f \in BagToSet(inflight') :
          /\ f.type = IF PR_ENABLED THEN "PR_STREAM" ELSE "STREAM"
          /\ f.Data = SubSeq(presented', f.Offset + 1, f.Offset + Len(f.Data))
          /\ f.Fin => finishedWriting' /\ f.Offset + Len(f.Data) = Len(presented')]_vars

\* C20 happens: with PR_ENABLED false a frame that was lost came back as a
\* STREAM frame split at the whole budget of 5 bytes, 2 bytes of data
C20_Witness ==
  /\ ~PR_ENABLED
  /\ last.op = "popStreamFrame"
  /\ last.retransmission
  /\ last.maxBytes = 5
  /\ last.frame # <<>>
  /\ last.frame[1].type = "STREAM"
  /\ Len(last.frame[1].Data) = 2
  /\ retransmissionQueue # <<>>

\* the encoded length of a frame popStreamFrame returned
WireFrameLength(f) ==
  IF f.type = "PR_STREAM" THEN PRStreamFrameLength(f) ELSE StreamFrameLength(f)

\* C21: every frame popStreamFrame(maxBytes) returns, STREAM or PR_STREAM, new,
\* FIN-only, retransmitted or split off, has an encoded length of at most
\* maxBytes.
C21_FrameFitsBudget ==
  [][PopFrame => WireFrameLength(last'.frame[1]) <= last'.maxBytes]_vars

\* C22: popStreamFrame returns no frame without data and without the FIN bit;
\* when nextFrame or dataForWriting holds unsent data and the budget, or the
\* smaller of the budget and the send window, admits no byte of it,
\* popStreamFrame returns (nil, hasMore) without a panic and leaves writeOffset,
\* numOutstandingFrames, dataForWriting and nextFrame as they are.
C22_NoEmptyFrame ==
  [][last'.op = "popStreamFrame" =>
       /\ last'.frame # <<>> =>
            Len(last'.frame[1].Data) > 0 \/ last'.frame[1].Fin
       /\ (/\ ~canceledWrite
           /\ closeForShutdownErr = NoErr
           /\ retransmissionQueue = <<>>
           /\ dataForWriting # <<>> \/ nextFrame # <<>>
           /\ Min(StreamFrameMaxDataLen([Offset |-> writeOffset],
                                        prMaxBytes(last'.maxBytes)),
                  SendWindowSize(Cur)) = 0)
          => /\ panicked' = "none"
             /\ last'.frame = <<>>
             /\ UNCHANGED <<writeOffset, numOutstandingFrames, dataForWriting,
                            nextFrame>>]_vars

\* the bytes the stream holds for framing, in stream order
HeldBytes == (IF nextFrame = <<>> THEN <<>> ELSE nextFrame[1].Data) \o dataForWriting

\* C23: writeOnce is held exactly while a Write call is in progress, so at most
\* one call holds it; a Write that finds it taken blocks (only then) and changes
\* neither dataForWriting nor nextFrame; a Write takes its bytes in, and a
\* blocked Write goes on, only when no other call holds writeOnce; and the bytes
\* in nextFrame and dataForWriting are always consecutive bytes of the calls,
\* never bytes of two calls interleaved.
C23_SingleWriter ==
  [][/\ writeOnce' \in {0, 1}
     /\ (wpc' = "wait") <=> (writeOnce' = 1)
     /\ last'.op = "WriteBlocked" =>
          /\ writeOnce = 1
          /\ wpc = "wait"
          /\ UNCHANGED <<dataForWriting, nextFrame, p, presented, offered, wpc, writeOnce>>
     /\ offered' # offered \/ blockedWrites' < blockedWrites =>
          /\ writeOnce = 0
          /\ wpc = "idle"
     /\ \A i \in 1..(Len(HeldBytes') - 1) : HeldBytes'[i + 1] = HeldBytes'[i] + 1]_vars

\* C23 happens: a Write call is blocked on writeOnce while the bytes of the Write
\* in progress wait in dataForWriting
C23_Witness ==
  /\ last.op = "WriteBlocked"
  /\ blockedWrites = 1
  /\ wpc = "wait"
  /\ writeOnce = 1
  /\ dataForWriting # <<>>

\* C24: no operation of the stream calls onHasStreamData, onStreamCompleted or
\* queueControlFrame on its streamSender while it holds the stream's mutex.
C24_NoCallUnderMutex == callsUnderMutex = {}

\* C25: numOutstandingFrames is never negative and the "numOutStandingFrames
\* negative" panic of frameAcked and queueRetransmission is never raised, when
\* every frame popStreamFrame returned is acknowledged or lost at most once;
\* while the write side is not cancelled the counter equals the number of
\* frames in flight.
C25_OutstandingNeverNegative ==
  /\ numOutstandingFrames >= 0
  /\ panicked # "numOutStandingFrames negative"
  /\ ~canceledWrite => numOutstandingFrames = BagCardinality(inflight)

\* a retransmitted frame was popped again and then acknowledged, which brought
\* the counter back to zero
C25_Witness ==
  /\ last.op = "OnAcked"
  /\ numOutstandingFrames = 0
  /\ ~canceledWrite
  /\ sumNew > 0
  /\ retransmissionQueue = <<>>
  /\ finFrames > newFinFrames

\* C26: whenever no Write call is in progress dataForWriting is empty and
\* hasData() returns false, also after a Write that was ended by CancelWrite,
\* handleStopSendingFrame, closeForShutdown or the deadline.
C26_NoPendingWriteWhenIdle ==
  wpc = "idle" => dataForWriting = <<>> /\ ~hasData(Cur)

\* the number of data bytes in the frames of the sequence q
RECURSIVE QueuedBytes(_)
QueuedBytes(q) ==
  IF q = <<>> THEN 0 ELSE Len(Head(q).Data) + QueuedBytes(Tail(q))

\* the number of bytes the PR_ACK_NOTIFY frames of the sequence q stand for
RECURSIVE NotifiedBytes(_)
NotifiedBytes(q) ==
  IF q = <<>> THEN 0 ELSE Head(q).PRDataLen + NotifiedBytes(Tail(q))

\* the number of data bytes in the frames of the bag b
RECURSIVE BagBytes(_)
BagBytes(b) ==
  IF BagToSet(b) = {} THEN 0
  ELSE LET f == CHOOSE g \in BagToSet(b) : TRUE
       IN  Len(f.Data) + BagBytes(b (-) SetToBag({f}))

\* the bytes found in the acknowledged frames, the retransmission queue, the
\* notify queue, nextFrame and dataForWriting
StoredBytes ==
  ackedBytes + QueuedBytes(retransmissionQueue)
    + NotifiedBytes(prAckNotifyRetransmissionQueue) + NextFrameLen
    + Len(dataForWriting)

WireInput == wireFrame[1]

\* the length of the header of the PR_STREAM frame f, its PR fields included
PRHeaderLen(f) == PRStreamFrame_Length(f) - Len(f.Data)

\* the largest number of data bytes with which a frame of the shape of f has an
\* encoded length of at most budget; 0 when there is none
LargestFitting(f, budget) ==
  LET fits == {n \in 0..budget :
                 PRStreamFrame_Length([f EXCEPT !.Data = Bytes(1, n)]) <= budget}
  IN  IF fits = {} THEN 0 ELSE CHOOSE n \in fits : \A m \in fits : m <= n

\* C28: for a PR_STREAM frame f and a budget b with header(f) < b < Length(f),
\* MaybeSplitOffFrame returns normally with a head and leaves a tail such that
\* the head starts at f's offset, the tail right after the head, the data of
\* head and tail put together is f's data, the tail keeps f's FIN, the head has
\* none, and PTDA and ptdaC are the same in both halves as in f.
C28_SplitIdentity ==
  (/\ wireOut.op = "MaybeSplitOffFrame"
   /\ PRHeaderLen(WireInput) < wireOut.maxSize
   /\ wireOut.maxSize < PRStreamFrame_Length(WireInput))
  => /\ wireOut.panic = "none"
     /\ wireOut.split
     /\ wireOut.new # <<>>
     /\ wireOut.new[1].Offset = WireInput.Offset
     /\ wireOut.f.Offset = WireInput.Offset + Len(wireOut.new[1].Data)
     /\ wireOut.new[1].Data \o wireOut.f.Data = WireInput.Data
     /\ wireOut.f.Fin = WireInput.Fin
     /\ ~wireOut.new[1].Fin
     /\ wireOut.new[1].PTDA = WireInput.PTDA /\ wireOut.f.PTDA = WireInput.PTDA
     /\ wireOut.new[1].ptdaC = WireInput.ptdaC /\ wireOut.f.ptdaC = WireInput.ptdaC

\* C29: parsing the bytes Append wrote for a PR_STREAM, PR_ACK_NOTIFY or
\* PR_DATAGRAM frame neither fails nor panics and returns the frame that was
\* written, for every combination of the OFF, LEN and FIN flags, every policy
\* bit and every value of ptdaC.
C29_RoundTrip ==
  wireOut.op = "parse" =>
    /\ wireOut.panic = "none"
    /\ wireOut.err = NoWireErr
    /\ wireOut.frame = wireFrame

\* C30: MaxDataLen of a PR_STREAM frame is 0 when the header alone, PR fields
\* included, is longer than the budget, and otherwise the largest number of
\* data bytes with which the frame's encoded length is at most the budget.
C30_MaxDataLen ==
  wireOut.op = "MaxDataLen" =>
    wireOut.n = IF PRHeaderLen([WireInput EXCEPT !.Data = <<>>]) > wireOut.maxSize
                  THEN 0
                  ELSE LargestFitting(WireInput, wireOut.maxSize)

\* the STREAM_DATA_BLOCKED frames among the control frames queued so far
BlockedFrames ==
  {i \in 1..Len(controlFrames) : controlFrames[i].type = "STREAM_DATA_BLOCKED"}

\* popStreamFrame is called with unsent data, an empty retransmission queue and
\* a send window of 0
PopWhileBlocked ==
  /\ last'.op = "popStreamFrame"
  /\ retransmissionQueue = <<>>
  /\ dataForWriting # <<>> \/ nextFrame # <<>>
  /\ SendWindowSize(Cur) = 0

\* what C31 requires of such a call
BlockedPopOutcome ==
  /\ last'.frame = <<>>
  /\ panicked' = "none"
  /\ UNCHANGED <<writeOffset, dataForWriting, nextFrame>>
  /\ IF IsNewlyBlocked(Cur).isBlocked
       THEN /\ controlFrames' =
                 Append(controlFrames,
                        [type |-> "STREAM_DATA_BLOCKED", StreamID |-> streamID,
                         MaximumStreamData |-> IsNewlyBlocked(Cur).offset])
            /\ ~last'.hasMore
       ELSE /\ controlFrames' = controlFrames
            /\ last'.hasMore

\* C31 as stated: with unsent data, an empty retransmission queue and a send
\* window of 0, popStreamFrame returns no frame, leaves writeOffset,
\* dataForWriting and nextFrame alone, queues one STREAM_DATA_BLOCKED and
\* returns hasMore = false when IsNewlyBlocked() holds, and queues nothing and
\* returns hasMore = true otherwise.
C31_BlockedOnceAsStated == [][PopWhileBlocked => BlockedPopOutcome]_vars

\* C31: on a stream that is neither cancelled nor shut down, with unsent data,
\* an empty retransmission queue and a send window of 0, popStreamFrame returns
\* no frame, leaves writeOffset, dataForWriting and nextFrame alone, queues one
\* STREAM_DATA_BLOCKED at the offset IsNewlyBlocked() reports and returns
\* hasMore = false when IsNewlyBlocked() holds, and queues nothing and returns
\* hasMore = true otherwise; no two STREAM_DATA_BLOCKED frames are queued for
\* the same offset.
C31_BlockedOnce ==
  [][/\ (PopWhileBlocked /\ ~canceledWrite /\ closeForShutdownErr = NoErr)
          => BlockedPopOutcome
     /\ \A i, j \in BlockedFrames' :
          controlFrames'[i].MaximumStreamData = controlFrames'[j].MaximumStreamData
            => i = j]_vars

\* a pop found the window used up for the first time at this offset
C31_Witness ==
  /\ last.op = "popStreamFrame"
  /\ last.frame = <<>>
  /\ ~last.hasMore
  /\ ~canceledWrite /\ closeForShutdownErr = NoErr
  /\ dataForWriting # <<>>
  /\ SendWindowSize(Cur) = 0
  /\ writeOffset > 0
  /\ BlockedFrames # {}
  /\ controlFrames[Len(controlFrames)].MaximumStreamData = writeOffset

\* C32: updateSendWindow(limit) forwards limit to the flow controller, then
\* calls onHasStreamData exactly when dataForWriting or nextFrame is non-empty,
\* and changes nothing else of the stream.
C32_UpdateSendWindow ==
  [][last'.op = "updateSendWindow" =>
       /\ last'.calls =
            <<<<"UpdateSendWindow", last'.limit>>>>
              \o (IF dataForWriting # <<>> \/ nextFrame # <<>>
                    THEN <<<<"onHasStreamData", streamID>>>> ELSE <<>>)
       /\ fcSendWindow' = IF last'.limit > fcSendWindow THEN last'.limit
                                                        ELSE fcSendWindow
       /\ UNCHANGED <<streamVars, writerVars, controlFrames, completedCalls,
                      fcBytesSent, fcLastBlockedAt, panicked>>]_vars

\* the window was raised while only nextFrame held data, and the sender was
\* notified after the forward
C32_Witness ==
  /\ last.op = "updateSendWindow"
  /\ last.calls = <<<<"UpdateSendWindow", last.limit>>, <<"onHasStreamData", streamID>>>>
  /\ nextFrame # <<>>
  /\ dataForWriting = <<>>
  /\ fcSendWindow = last.limit

\* the stream offsets a frame holds
FrameRange(f) == {f.Offset + k : k \in 0..(Len(f.Data) - 1)}

\* the stream offsets held by the frames of the retransmission queue, by
\* nextFrame, and by dataForWriting, whose first byte goes behind nextFrame
QueueRange == UNION {FrameRange(retransmissionQueue[i]) :
                       i \in 1..Len(retransmissionQueue)}

NextFrameRange == IF nextFrame = <<>> THEN {} ELSE FrameRange(nextFrame[1])

PendingRange ==
  {writeOffset + NextFrameLen + k : k \in 0..(Len(dataForWriting) - 1)}

\* the bytes, as Write received them, in a sequence of frames
FrameBytes(q) == UNION {{q[i].Data[k] : k \in 1..Len(q[i].Data)} : i \in 1..Len(q)}

\* C33: the stream offsets held by the retransmission queue, by nextFrame and by
\* dataForWriting are pairwise disjoint, and no byte handed to Write is in two
\* of these places at a time.
C33_OnePlacePerByte ==
  /\ QueueRange \cap NextFrameRange = {}
  /\ QueueRange \cap PendingRange = {}
  /\ NextFrameRange \cap PendingRange = {}
  /\ FrameBytes(retransmissionQueue) \cap FrameBytes(nextFrame) = {}
  /\ FrameBytes(retransmissionQueue) \cap {dataForWriting[k] : k \in 1..Len(dataForWriting)} = {}
  /\ FrameBytes(nextFrame) \cap {dataForWriting[k] : k \in 1..Len(dataForWriting)} = {}

\* all three places hold bytes at the same time
C33_Witness ==
  /\ QueueRange # {}
  /\ NextFrameRange # {}
  /\ PendingRange # {}

\* C34: with PR enabled and a PTDA that is none of 0x80, 0x40, 0x20, 0x10,
\* popStreamFrame returns no frame, no frame with such a PTDA is handed to the
\* packet assembler, and OnLost of such a frame stops the process and changes
\* no queue.
C34_UnknownPolicyAborts ==
  [][(PR_ENABLED /\ PTDA \notin KnownPTDA) =>
       /\ last'.op = "popStreamFrame" => last'.frame = <<>>
       /\ \A f \in BagToSet(inflight') : f.PTDA \in KnownPTDA
       /\ last'.op = "OnLost" =>
            /\ panicked' # "none"
            /\ UNCHANGED <<retransmissionQueue, prAckNotifyRetransmissionQueue>>]_vars

CompletionDue ==
  /\ panicked = "none"
  /\ finSent \/ canceledWrite
  /\ numOutstandingFrames = 0
  /\ retransmissionQueue = <<>>
  /\ ~completed

\* C36: when every frame handed to the packet assembler is acknowledged or
\* declared lost, the stream does not stay forever in a state where finSent or
\* canceledWrite holds, no frame is outstanding and the retransmission queue is
\* empty while onStreamCompleted was not called.
C36_EventuallyCompleted == []<>(~CompletionDue)

(* ------------------------------- C37 ---------------------------------- *)
\* the stream was canceled or shut down, or its write deadline has passed
WriteEnded ==
  \/ canceledWrite
  \/ closedForShutdown
  \/ (deadline # 0 /\ ~(now < deadline))

\* a wake-up of the suspended Write is pending: a value sits in writeChan, or
\* the timer of the Write has fired
WakeUpPending ==
  \/ writeChan = 1
  \/ (timerDeadline # 0 /\ ~(now < timerDeadline))

\* the suspended Write wakes up and suspends again
WriteSuspendsAgain == wpc = "wait" /\ last'.op = "WriteSuspended"

\* the packet assembler holds the stream as one that has data and can take a
\* frame from it
PopDue ==
  /\ panicked = "none"
  /\ assembler = "notified"
  /\ BagCardinality(inflight) < MaxInflight
  /\ \E maxBytes \in MaxBytesChoices : admitsData(maxBytes)

\* the packet assembler calls popStreamFrame
PopStep == last'.op = "popStreamFrame"

\* the packet assembler calls popStreamFrame whenever it was notified by
\* onHasStreamData or the last popStreamFrame returned hasMore
AssemblerPops == []<>(~PopDue) \/ []<><<PopStep>>_vars

\* the peer raises the send window, by updateSendWindow, to admit every byte
\* the application writes
WindowRaised == []<>(fcSendWindow = MaxWrites * MaxWriteLen)

\* the peer acknowledges the frames it receives
FramesAcked == []<>(BagCardinality(inflight) < MaxInflight)

====
